---- MODULE Spec2Model ----
(***************************************************************************)
(* Model of the hybrid recommendation engine                               *)
(* (src/app/ml/models/hybrid.py) and of the repositories and feature       *)
(* extractors that HybridRecommender calls.                                *)
(*                                                                         *)
(* Numbers.  Partial scores (collaborative, popularity, recency, social,   *)
(* content similarity) are fixed-point integers in units of 1/ScoreScale;  *)
(* a final score is in units of 1/(10 * ScoreScale) because the model      *)
(* weights are kept in tenths.  Embedding components are fixed-point       *)
(* integers in units of 1/EmbScale.                                        *)
(*                                                                         *)
(* Two specifications share the variables:                                 *)
(*   Spec       one call of recommend() as the repository wires it         *)
(*              (routes.py:34-40: HybridRecommender over ContentRepository)*)
(*   StageSpec  the stages of recommend() that follow candidate            *)
(*              generation (merge/filter, score, diversify, response),     *)
(*              applied to candidate lists built by the sources'           *)
(*              candidate constructors over arbitrary lookup results.      *)
(***************************************************************************)
EXTENDS Integers, Sequences, FiniteSets, TLC

VARIABLES
    livePosts,        \* rows of table posts that exist (ids)
    postCreator,      \* post id -> posts.user_id
    userInterests,    \* user id -> sequence of interest names (user_interests)
    friends,          \* accepted friends of the calling user
    interactionLog,   \* user id -> sequence of interactions, newest first
    userEmbStore,     \* user id -> stored "combined" embedding (<<>> = no row)
    contentEmbStore,  \* post id -> stored "combined" embedding (<<>> = no row)
    user_id,          \* arguments of recommend()
    user_features,
    exclude_ids,
    filters,
    limit,
    pc,               \* position inside recommend()
    user_embedding,   \* local of recommend()
    cbOut,            \* what each candidate source returned
    cfOut,
    socOut,
    trOut,
    candidates,       \* result of _get_recommendation_candidates
    scored,           \* result of _score_candidates
    diversified,      \* local of _diversify_recommendations, before the exploration pass
    final_recommendations, \* result of _diversify_recommendations
    result,           \* list returned by recommend()
    outcome,          \* "running", "returned" or "raised" (escaped to the caller)
    exc,              \* kind of the exception in flight or handled last
    raisedAt,         \* stage in which that exception was raised
    http_response,    \* what the HTTP endpoint answered (status_code 0: no answer yet)
    voizy,            \* one VoizyRecommender.get_recommendations call (voizy package)
    embeddings,       \* tables user_embeddings / content_embeddings row by row, and the sessions writing them
    server,           \* the voizy API process: recommender, response cache, refresh thread, requests
    features          \* one run of a feature extractor: raw attributes and the vector before normalization

worldVars == <<livePosts, postCreator, userInterests, friends, interactionLog, userEmbStore, contentEmbStore>>
argVars == <<user_id, user_features, exclude_ids, filters, limit>>
sourceVars == <<cbOut, cfOut, socOut, trOut>>
vars == <<livePosts, postCreator, userInterests, friends, interactionLog, userEmbStore, contentEmbStore,
          user_id, user_features, exclude_ids, filters, limit,
          pc, user_embedding, cbOut, cfOut, socOut, trOut,
          candidates, scored, diversified, final_recommendations, result, outcome, exc, raisedAt,
          http_response, voizy, embeddings, server, features>>
outerVars == <<http_response, voizy, embeddings, server, features>>

(***************************************************************************)
(* Bounds of the model                                                     *)
(***************************************************************************)
MaxPosts == 3
MaxInteractions == 2
MaxLimit == 2
MaxBoostSpan == 2
MaxShort == 7
MaxOver == 1

PostIds == 1..MaxPosts
ExistingUsers == {1, 2, 3}
Callers == {1, 4}

(***************************************************************************)
(* Generic helpers                                                         *)
(***************************************************************************)
Min(a, b) == IF a < b THEN a ELSE b
Max(a, b) == IF a > b THEN a ELSE b

Range(s) == {s[i] : i \in 1..Len(s)}

RECURSIVE SumSeq(_)
SumSeq(s) ==
    IF Len(s) = 0 THEN 0
    ELSE IF Len(s) = 1 THEN s[1]
    ELSE LET mid == Len(s) \div 2
         IN SumSeq(SubSeq(s, 1, mid)) + SumSeq(SubSeq(s, mid + 1, Len(s)))

RECURSIVE ConcatAll(_)
ConcatAll(ss) == IF ss = <<>> THEN <<>> ELSE Head(ss) \o ConcatAll(Tail(ss))

Prefix(s, n) == SubSeq(s, 1, Min(n, Len(s)))

\* all sequences over S of length at most n
SeqsUpTo(S, n) == UNION {[1..k -> S] : k \in 0..n}

\* Stable sort of <<key, item>> pairs, ascending by key (list.sort and
\* ORDER BY, with ties kept in input order): an entry goes to the place
\* given by the number of entries that sort before it
SortPairs(s) ==
    LET n == Len(s)
        entries == SubSeq(s, 1, n)
        before(i) == {j \in 1..n : \/ entries[j][1] < entries[i][1]
                                   \/ entries[j][1] = entries[i][1] /\ j < i}
        place == SubSeq([i \in 1..n |-> 1 + Cardinality(before(i))], 1, n)
    IN [k \in 1..n |-> entries[CHOOSE i \in 1..n : place[i] = k]]

Items(pairs) == [i \in 1..Len(pairs) |-> pairs[i][2]]

\* floor of the square root, by bisection on [lo, hi]
RECURSIVE SqrtSearch(_, _, _)
SqrtSearch(n, lo, hi) ==
    IF lo >= hi THEN lo
    ELSE LET mid == (lo + hi + 1) \div 2
         IN IF mid * mid <= n THEN SqrtSearch(n, mid, hi) ELSE SqrtSearch(n, lo, mid - 1)

ISqrt(n) == SqrtSearch(n, 0, Min(n, 46340))

(***************************************************************************)
(* Fixed-point scales, and the two constants of the score formulas      *)
(***************************************************************************)
RecencyHorizonDays == 30
EngagementCap == 100
ScoreScale == RecencyHorizonDays * 10
EmbScale == 10 * 10 * 10

(***************************************************************************)
(* The database.  Table posts and its satellites are a fixed catalogue of  *)
(* three kinds of post, repeated over PostIds; which rows exist, what the  *)
(* users are interested in and what they did are chosen by Init.           *)
(* created_at is <<>> for NULL and <<age>> otherwise, age being the whole  *)
(* days between created_at and the clock of the call (negative when the    *)
(* row is stamped later than the clock); original_post_id is <<>> for NULL.*)
(***************************************************************************)
PostKinds ==
    << [user_id |-> 2, created_at |-> <<0>>, is_poll |-> FALSE, original_post_id |-> <<>>,
        impressions |-> 100, views |-> 50, content_text |-> "great code",
        total_reactions |-> 20, total_comments |-> 5, total_shares |-> 10,
        hashtags |-> <<"technology">>],
       [user_id |-> 2, created_at |-> <<10>>, is_poll |-> TRUE, original_post_id |-> <<>>,
        impressions |-> 0, views |-> 0, content_text |-> "",
        total_reactions |-> 0, total_comments |-> 0, total_shares |-> 0,
        hashtags |-> <<"technology", "music">>],
       [user_id |-> 3, created_at |-> <<40>>, is_poll |-> FALSE, original_post_id |-> <<1>>,
        impressions |-> 10, views |-> 20000, content_text |-> "sad news https://t.co @bob",
        total_reactions |-> 200, total_comments |-> 0, total_shares |-> 0,
        hashtags |-> <<"music">>] >>

Post(p) == PostKinds[((p - 1) % Len(PostKinds)) + 1]

PostIdSeq == [i \in 1..MaxPosts |-> i]

\* ContentRepository.get_content_by_id: None when the row is gone
ContentExists(p) == p \in livePosts

\* the dict ContentRepository.get_content_by_id builds
get_content_by_id(p) == [content_id |-> p, user_id |-> postCreator[p]] @@ Post(p)

\* created_at DESC: newest first, NULL last
CreatedKey(p) == IF Post(p).created_at = <<>> THEN 1000000 ELSE Post(p).created_at[1]

\* ContentRepository.get_content_by_hashtag(db, hashtag, limit)
get_content_by_hashtag(hashtag, lim) ==
    LET tagged(p) == p \in livePosts /\ hashtag \in Range(Post(p).hashtags)
        ids == Items(SortPairs([i \in 1..Len(SelectSeq(PostIdSeq, tagged)) |->
                    <<CreatedKey(SelectSeq(PostIdSeq, tagged)[i]), SelectSeq(PostIdSeq, tagged)[i]>>]))
        picked == Prefix(ids, lim)
    IN [i \in 1..Len(picked) |-> get_content_by_id(picked[i])]

\* the rows ContentRepository.get_trending_content selects: created within `days`
RecentPosts(days) ==
    {p \in livePosts : Post(p).created_at # <<>> /\ Post(p).created_at[1] <= days}

\* UserRepository.get_user_by_id: None for an unknown id
UserExists(u) == u \in ExistingUsers

\* UserRepository.get_user_interests
get_user_interests(u) == IF u \in DOMAIN userInterests THEN userInterests[u] ELSE <<>>

\* UserRepository.get_user_friends
get_user_friends(u) == IF u = 1 THEN friends ELSE {}

SharedInterests(u, v) == Cardinality(Range(get_user_interests(u)) \cap Range(get_user_interests(v)))

\* UserRepository.get_users_with_similar_interests: every order the query may
\* return, users sharing more interests first, ties in any order
SimilarUserOrders(u, lim) ==
    LET near == {v \in ExistingUsers : v # u /\ SharedInterests(u, v) > 0}
        n == Cardinality(near)
        orders == {o \in [1..n -> near] :
                      /\ \A i, j \in 1..n : i # j => o[i] # o[j]
                      /\ \A i, j \in 1..n : i < j => SharedInterests(u, o[i]) >= SharedInterests(u, o[j])}
    IN {Prefix(o, lim) : o \in orders}

\* InteractionRepository.get_user_content_interactions(db, user, days):
\* reactions, comments and shares of the last `days` days, newest first
get_user_content_interactions(u, days) ==
    LET log == IF u \in DOMAIN interactionLog THEN interactionLog[u] ELSE <<>>
        inWindow(x) == x.days_ago <= days
        kept == SelectSeq(log, inWindow)
    IN Items(SortPairs([i \in 1..Len(kept) |-> <<kept[i].days_ago, kept[i]>>]))

\* UserRepository.get_user_embedding / ContentRepository.get_content_embedding:
\* None (here <<>>) when no row is stored
get_user_embedding(u) == IF u \in DOMAIN userEmbStore THEN userEmbStore[u] ELSE <<>>
get_content_embedding(p) == IF p \in DOMAIN contentEmbStore THEN contentEmbStore[p] ELSE <<>>

(***************************************************************************)
(* Feature extraction and embeddings                                       *)
(***************************************************************************)
\* str.lower() on the strings of the catalogue
Lower(str) == IF str = "Technology" THEN "technology" ELSE str

\* the words w of the category lists with `w in str` (substring test)
WordsIn(str) ==
    CASE str = "technology" -> {"technology", "tech"}
      [] str = "music" -> {"music"}
      [] OTHER -> {}

\* one-hot-like encoding: 1.0 at every category found in one of the strings
CategoryEmbedding(categories, strs) ==
    [i \in 1..Len(categories) |->
        IF \E k \in 1..Len(strs) : categories[i] \in WordsIn(Lower(strs[k]))
        THEN EmbScale ELSE 0]

\* min(value / maximum, 1.0)
CappedRatio(value, maximum) == Min((value * EmbScale) \div maximum, EmbScale)

\* x / norm for every component when norm > 0, the vector itself otherwise
Normalize(v) ==
    LET norm == ISqrt(SumSeq([i \in 1..Len(v) |-> v[i] * v[i]]))
    IN IF norm > 0 THEN [i \in 1..Len(v) |-> (v[i] * EmbScale) \div norm] ELSE v

InterestCategories ==
    <<"technology", "sports", "music", "movies", "books", "fashion",
      "food", "travel", "gaming", "fitness", "art", "photography">>

\* UserFeatureExtractor._compute_interest_embedding
ComputeInterestEmbedding(interests) == CategoryEmbedding(InterestCategories, interests)

\* UserRepository.get_user_activity_features: the placeholder metrics
get_user_activity_features ==
    [post_frequency |-> 0, comment_frequency |-> 0, reaction_frequency |-> 0,
     share_frequency |-> 0, active_days_per_week |-> 0]

\* UserFeatureExtractor._compute_activity_embedding
ComputeActivityEmbedding(activity) ==
    << CappedRatio(activity.post_frequency, 10),
       CappedRatio(activity.comment_frequency, 50),
       CappedRatio(activity.reaction_frequency, 100),
       CappedRatio(activity.share_frequency, 20),
       (activity.active_days_per_week * EmbScale) \div 7 >>

ReactionTypes == <<"like", "love", "laugh", "congratulate", "shocked", "sad", "angry">>
DayParts == <<"morning", "afternoon", "evening", "night">>

DayPart(hour) ==
    IF 6 <= hour /\ hour < 12 THEN "morning"
    ELSE IF 12 <= hour /\ hour < 18 THEN "afternoon"
    ELSE IF 18 <= hour /\ hour < 24 THEN "evening"
    ELSE "night"

CountIf(seq, Test(_)) == Len(SelectSeq(seq, Test))

\* UserFeatureExtractor._compute_derived_features followed by
\* _compute_interaction_embedding: reaction distribution, activity times,
\* engagement level
ComputeInteractionEmbedding(interactions) ==
    LET isReaction(x) == x.interaction_type = "reaction"
        reactions == SelectSeq(interactions, isReaction)
        total_reactions == IF reactions = <<>> THEN 1 ELSE Len(reactions)
        total_activities == IF interactions = <<>> THEN 1 ELSE Len(interactions)
        reaction_embedding ==
            [i \in 1..Len(ReactionTypes) |->
                LET ofType(x) == x.interaction_subtype = ReactionTypes[i]
                IN (CountIf(reactions, ofType) * EmbScale) \div total_reactions]
        time_embedding ==
            [i \in 1..Len(DayParts) |->
                LET atPart(x) == DayPart(x.hour) = DayParts[i]
                IN (CountIf(interactions, atPart) * EmbScale) \div total_activities]
        engagement_value ==
            IF Len(interactions) > 50 THEN EmbScale
            ELSE IF Len(interactions) > 20 THEN EmbScale \div 2
            ELSE 0
    IN reaction_embedding \o time_embedding \o <<engagement_value>>

\* UserFeatureExtractor.create_user_embedding: the vector it returns; [] for
\* an unknown user
CreateUserEmbedding(u) ==
    IF ~UserExists(u) THEN <<>>
    ELSE Normalize(ComputeInterestEmbedding(get_user_interests(u))
                   \o ComputeActivityEmbedding(get_user_activity_features)
                   \o ComputeInteractionEmbedding(get_user_content_interactions(u, 30)))

\* variant of the store update below that persists nothing
StoreNotWritten(store, u) == store

\* ... and the store it leaves: nothing is written for an unknown user
StoreAfterCreateUserEmbedding(store, u) ==
    IF ~UserExists(u) THEN store ELSE [store EXCEPT ![u] = CreateUserEmbedding(u)]

\* ContentFeatureExtractor._extract_text_features with _analyze_sentiment and
\* _extract_topics, on the texts of the catalogue
ExtractTextFeatures(text) ==
    CASE text = "great code" ->
            [length |-> 10, word_count |-> 2, has_url |-> FALSE, has_mention |-> FALSE,
             sentiment |-> "positive", topics |-> {"technology"}]
      [] text = "sad news https://t.co @bob" ->
            [length |-> 26, word_count |-> 4, has_url |-> TRUE, has_mention |-> TRUE,
             sentiment |-> "negative", topics |-> {}]
      [] OTHER ->
            [length |-> 0, word_count |-> 0, has_url |-> FALSE, has_mention |-> FALSE,
             sentiment |-> "neutral", topics |-> {}]

Topics == <<"technology", "sports", "entertainment", "politics", "business">>

\* ContentFeatureExtractor._compute_text_embedding
ComputeTextEmbedding(tf) ==
    << IF tf.sentiment = "positive" THEN EmbScale
       ELSE IF tf.sentiment = "negative" THEN -EmbScale ELSE 0 >>
    \o [i \in 1..Len(Topics) |-> IF Topics[i] \in tf.topics THEN EmbScale ELSE 0]
    \o << CappedRatio(tf.length, 500),
          CappedRatio(tf.word_count, 100),
          IF tf.has_url THEN EmbScale ELSE 0,
          IF tf.has_mention THEN EmbScale ELSE 0 >>

\* shares weighted 3, comments 2, reactions 1
WeightedEngagement(reactions, comments, shares) == reactions + comments * 2 + shares * 3

\* ContentFeatureExtractor._calculate_engagement_rate
CalculateEngagementRate(cd) ==
    IF cd.impressions = 0 THEN 0
    ELSE (WeightedEngagement(cd.total_reactions, cd.total_comments, cd.total_shares) * EmbScale)
            \div cd.impressions

\* ContentFeatureExtractor._compute_engagement_embedding
ComputeEngagementEmbedding(cd) ==
    << CappedRatio(cd.impressions, 10000),
       CappedRatio(cd.views, 10000),
       CappedRatio(cd.total_reactions, 500),
       CappedRatio(cd.total_comments, 100),
       CappedRatio(cd.total_shares, 50),
       CalculateEngagementRate(cd) >>

\* variant of the list below cut to thirteen categories
HashtagCategoriesCut ==
    <<"tech", "sport", "music", "movie", "book", "fashion",
      "food", "travel", "game", "fitness", "art", "photo", "news">>

HashtagCategories ==
    <<"tech", "sport", "music", "movie", "book", "fashion",
      "food", "travel", "game", "fitness", "art", "photo",
      "news", "politics", "business", "science", "health">>

\* ContentFeatureExtractor._compute_hashtag_embedding
ComputeHashtagEmbedding(hashtags) == CategoryEmbedding(HashtagCategories, hashtags)

\* ContentFeatureExtractor.create_content_embedding: the vector it returns;
\* [] when the post is gone
CreateContentEmbedding(p) ==
    IF ~ContentExists(p) THEN <<>>
    ELSE LET cd == get_content_by_id(p)
         IN Normalize(ComputeTextEmbedding(ExtractTextFeatures(cd.content_text))
                      \o ComputeEngagementEmbedding(cd)
                      \o ComputeHashtagEmbedding(cd.hashtags))

\* variant: only the text part of the embedding is stored
StoreTextPartOnly(store, p) ==
    IF ~ContentExists(p) THEN store
    ELSE [store EXCEPT ![p] =
            ComputeTextEmbedding(ExtractTextFeatures(get_content_by_id(p).content_text))]

\* ... and the store it leaves
StoreAfterCreateContentEmbedding(store, p) ==
    IF ~ContentExists(p) THEN store ELSE [store EXCEPT ![p] = CreateContentEmbedding(p)]

Dot(a, b) == SumSeq([i \in 1..Len(a) |-> a[i] * b[i]])

\* HybridRecommender._calculate_similarity: 0.0 for an empty vector or
\* unequal lengths, the cosine otherwise (0.0 when a norm is zero)
CalculateSimilarity(vec1, vec2) ==
    IF vec1 = <<>> \/ vec2 = <<>> \/ Len(vec1) # Len(vec2) THEN 0
    ELSE LET n1 == ISqrt(Dot(vec1, vec1))
             n2 == ISqrt(Dot(vec2, vec2))
         IN IF n1 * n2 = 0 THEN 0 ELSE (Dot(vec1, vec2) * ScoreScale) \div (n1 * n2)

(***************************************************************************)
(* Candidate sources (HybridRecommender._get_*_candidates)                 *)
(***************************************************************************)
HashtagLimit == 10
SimilarUsersLimit == 20
CollaborativeDays == 14
TrendingDays == 3
TrendingLimit == 20
NullAgeDays == 30

HasKey(row, key) == key \in DOMAIN row

\* age_days = (utcnow - created_at).days if created_at else 30;
\* recency_score = max(0, 1 - age_days / 30)
RecencyScore(created_at) ==
    LET age_days == IF created_at = <<>> THEN NullAgeDays ELSE created_at[1]
    IN Max(0, ScoreScale - (age_days * ScoreScale) \div RecencyHorizonDays)

\* popularity_score = min(engagement / 100, 1.0)
PopularityScore(engagement) == Min((engagement * ScoreScale) \div EngagementCap, ScoreScale)

Candidate(cid, cb, cf, pop, rec, has_soc, soc) ==
    [content_id |-> cid, content_based_score |-> cb, collaborative_score |-> cf,
     popularity_score |-> pop, recency_score |-> rec,
     has_social |-> has_soc, social_score |-> soc]

\* the dict appended at hybrid.py:306-312; it reads post["engagement_score"]
CbCandidate(post) ==
    Candidate(post.content_id, (8 * ScoreScale) \div 10, 0,
              PopularityScore(post.engagement_score), RecencyScore(post.created_at), FALSE, 0)

\* the posts the content-based loop reaches: per interest, in order, the
\* hashtag lookup's rows that are not excluded
ContentBasedVisits(u, excl) ==
    LET interests == get_user_interests(u)
        admitted(post) == post.content_id \notin excl
    IN ConcatAll([k \in 1..Len(interests) |->
          SelectSeq(get_content_by_hashtag(Lower(interests[k]), HashtagLimit), admitted)])

\* _get_content_based_candidates: KeyError at the first visited row that
\* has no "engagement_score", the candidates otherwise
ContentBasedRaises(visits) == \E i \in 1..Len(visits) : ~HasKey(visits[i], "engagement_score")
ContentBasedCandidates(visits) == [i \in 1..Len(visits) |-> CbCandidate(visits[i])]

\* interaction_score by interaction type (hybrid.py:337-343)
InteractionScore(interaction_type) ==
    IF interaction_type = "reaction" THEN (7 * ScoreScale) \div 10
    ELSE IF interaction_type = "comment" THEN (8 * ScoreScale) \div 10
    ELSE IF interaction_type = "share" THEN (9 * ScoreScale) \div 10
    ELSE (5 * ScoreScale) \div 10

\* the dict appended at hybrid.py:360-366
CfCandidate(interaction, cd) ==
    Candidate(interaction.content_id, 0, InteractionScore(interaction.interaction_type),
              PopularityScore(WeightedEngagement(cd.total_reactions, cd.total_comments, cd.total_shares)),
              RecencyScore(cd.created_at), FALSE, 0)

\* variant of the guard below that forgets the exclude set
CfAdmitIgnoringExclude(cid, excl, seen) == cid \notin seen

\* variant of the guard below that forgets content_seen
CfAdmitIgnoringSeen(cid, excl, seen) == cid \notin excl

\* the guard of hybrid.py:333 (and 387)
CfAdmit(cid, excl, seen) == cid \notin excl /\ cid \notin seen

\* the loop body of _get_collaborative_candidates over the neighbours'
\* interactions, in order; an admitted item whose row is gone is skipped
\* but stays in content_seen
RECURSIVE CollaborativeFold(_, _, _)
CollaborativeFold(interactions, excl, seen) ==
    IF interactions = <<>> THEN <<>>
    ELSE LET x == Head(interactions)
             cid == x.content_id
         IN IF CfAdmit(cid, excl, seen)
            THEN (IF ContentExists(cid) THEN <<CfCandidate(x, get_content_by_id(cid))>> ELSE <<>>)
                 \o CollaborativeFold(Tail(interactions), excl, seen \cup {cid})
            ELSE CollaborativeFold(Tail(interactions), excl, seen)

\* _get_collaborative_candidates for one order of the similar users
CollaborativeCandidates(similar_users, excl) ==
    CollaborativeFold(
        ConcatAll([k \in 1..Len(similar_users) |->
            get_user_content_interactions(similar_users[k], CollaborativeDays)]),
        excl, {})

\* hybrid.py:382: the recent posts of a friend are a placeholder, always []
FriendPosts(friend_id) == <<>>

\* the dict appended at hybrid.py:394-402
SocCandidate(post) ==
    Candidate(post.content_id, 0, 0,
              IF HasKey(post, "engagement_score") THEN PopularityScore(post.engagement_score)
              ELSE ScoreScale \div 2,
              RecencyScore(post.created_at), TRUE, (9 * ScoreScale) \div 10)

RECURSIVE SocialFold(_, _, _)
SocialFold(posts, excl, seen) ==
    IF posts = <<>> THEN <<>>
    ELSE LET post == Head(posts)
         IN IF CfAdmit(post.content_id, excl, seen)
            THEN <<SocCandidate(post)>> \o SocialFold(Tail(posts), excl, seen \cup {post.content_id})
            ELSE SocialFold(Tail(posts), excl, seen)

\* _get_social_candidates, the friends taken in the order friend_order
SocialCandidates(friend_order, excl) ==
    SocialFold(ConcatAll([k \in 1..Len(friend_order) |-> FriendPosts(friend_order[k])]), excl, {})

\* The call at hybrid.py:408 passes days and limit by keyword and nothing
\* else; ContentRepository.get_trending_content (content_repository.py:115)
\* requires db, its only parameter without a default.  The call binds, and
\* the query runs, only if every required parameter is supplied.
TrendingCallKeywords == {"days", "limit"}
TrendingRequiredParams == {"db"}
\* variant: the call as it would bind were db passed too
TrendingCallPassesDb == TrendingRequiredParams \subseteq (TrendingCallKeywords \cup {"db"})
TrendingCallBinds == TrendingRequiredParams \subseteq TrendingCallKeywords

\* number of rows the three outer joins of get_trending_content produce for
\* one post, and the three counts taken over them
JoinedRows(p) ==
    Max(Post(p).total_reactions, 1) * Max(Post(p).total_comments, 1) * Max(Post(p).total_shares, 1)
JoinCount(p, n) == IF n = 0 THEN 0 ELSE JoinedRows(p)

\* one dict of get_trending_content's result (content_repository.py:157-168)
TrendingRow(p) ==
    LET r == JoinCount(p, Post(p).total_reactions)
        c == JoinCount(p, Post(p).total_comments)
        sh == JoinCount(p, Post(p).total_shares)
    IN [content_id |-> p, user_id |-> postCreator[p], content_text |-> Post(p).content_text,
        created_at |-> Post(p).created_at, impressions |-> Post(p).impressions,
        views |-> Post(p).views, reaction_count |-> r, comment_count |-> c, share_count |-> sh,
        engagement_score |-> WeightedEngagement(r, c, sh)]

\* the results get_trending_content(days, limit) can give: the recent posts,
\* at most `lim` of them, in the order of the trending formula (any order
\* here: the model keeps days, not hours)
TrendingResults(days, lim) ==
    LET recent == RecentPosts(days)
        n == Min(lim, Cardinality(recent))
    IN {[i \in 1..n |-> TrendingRow(o[i])] :
            o \in {f \in [1..n -> recent] : \A i, j \in 1..n : i # j => f[i] # f[j]}}

\* the dict appended at hybrid.py:424-430
TrCandidate(post) ==
    Candidate(post.content_id, 0, 0,
              PopularityScore(WeightedEngagement(post.reaction_count, post.comment_count, post.share_count)),
              RecencyScore(post.created_at), FALSE, 0)

\* _get_trending_candidates over the rows the query returned
TrendingCandidates(trending_posts, excl) ==
    LET admitted(post) == post.content_id \notin excl
        kept == SelectSeq(trending_posts, admitted)
    IN [i \in 1..Len(kept) |-> TrCandidate(kept[i])]

(***************************************************************************)
(* recommend(): one call, as the service wires it                          *)
(***************************************************************************)
Orderings(S) ==
    {f \in [1..Cardinality(S) -> S] : \A i, j \in 1..Cardinality(S) : i # j => f[i] # f[j]}

NoFeatures == [given |-> FALSE, embedding |-> <<>>]
NoFilters == [content_types |-> {}, on |-> FALSE]

Like(p) == [content_id |-> p, interaction_type |-> "reaction", interaction_subtype |-> "like",
            days_ago |-> 1, hour |-> 9]
Share(p) == [content_id |-> p, interaction_type |-> "share", interaction_subtype |-> "share",
             days_ago |-> 1, hour |-> 20]
Comment(p, days) == [content_id |-> p, interaction_type |-> "comment", interaction_subtype |-> "comment",
                     days_ago |-> days, hour |-> 13]

\* what user 2 may have done lately
NeighbourLogs == SeqsUpTo({Like(p) : p \in PostIds} \cup {Share(1)}, MaxInteractions)

LiveChoices == {PostIds} \cup {PostIds \ {p} : p \in PostIds}
ExcludeChoices == {{}, {1}, PostIds}

\* posts.user_id as the catalogue has it
CatalogueCreators(ids) == [p \in ids |-> Post(p).user_id]

\* nothing of the HTTP endpoint or of the voizy package has run
NoVoizy == [pc |-> "idle"]
NoResponse == [status_code |-> 0, recommendations |-> <<>>]
NoTables == [rows |-> <<>>]
NoServer == [pc |-> "down"]
NoExtraction == [pc |-> "idle"]
InitOuter ==
    /\ http_response = NoResponse /\ voizy = NoVoizy
    /\ embeddings = NoTables /\ server = NoServer /\ features = NoExtraction

InitWorld ==
    /\ livePosts \in LiveChoices
    /\ postCreator = CatalogueCreators(PostIds)
    /\ \E mine \in {<<>>, <<"Technology">>, <<"Technology", "music">>} :
          userInterests = [u \in ExistingUsers |->
              IF u = 1 THEN mine ELSE IF u = 2 THEN <<"Technology">> ELSE <<"music", "Technology">>]
    /\ \E cold \in BOOLEAN, log2 \in NeighbourLogs :
          /\ friends = IF cold THEN {} ELSE {2}
          /\ interactionLog = [u \in ExistingUsers |->
                IF u = 1 THEN (IF cold THEN <<>> ELSE <<Like(1)>>)
                ELSE IF u = 2 THEN log2
                ELSE <<Comment(1, 2), Comment(2, 20), Comment(3, 3)>>]
    /\ contentEmbStore = [p \in PostIds |-> <<>>]

InitLocals ==
    /\ user_embedding = <<>>
    /\ cbOut = <<>> /\ cfOut = <<>> /\ socOut = <<>> /\ trOut = <<>>
    /\ candidates = <<>> /\ scored = <<>> /\ diversified = <<>> /\ final_recommendations = <<>>
    /\ result = <<>>
    /\ outcome = "running" /\ exc = "none" /\ raisedAt = "none"

Init ==
    /\ InitWorld
    /\ user_id \in Callers
    /\ \E how \in {"stored", "compute", "supplied"} :
          /\ userEmbStore = [u \in ExistingUsers |-> IF u = 1 /\ how = "stored" THEN <<600, 800>> ELSE <<>>]
          /\ user_features = IF how = "supplied" THEN [given |-> TRUE, embedding |-> <<1000, 0>>]
                             ELSE NoFeatures
    /\ exclude_ids \in ExcludeChoices
    /\ filters = NoFilters
    /\ limit \in -1..MaxLimit
    /\ pc = "embedding"
    /\ InitLocals
    /\ InitOuter

Raise(kind) ==
    /\ pc' = "except"
    /\ exc' = kind
    /\ raisedAt' = pc

\* hybrid.py:55-65
ResolveUserEmbedding ==
    /\ pc = "embedding"
    /\ IF ~user_features.given
       THEN LET stored == get_user_embedding(user_id)
            IN IF stored = <<>>
               THEN /\ user_embedding' = CreateUserEmbedding(user_id)
                    /\ userEmbStore' = StoreAfterCreateUserEmbedding(userEmbStore, user_id)
               ELSE /\ user_embedding' = stored
                    /\ UNCHANGED userEmbStore
       ELSE /\ user_embedding' = user_features.embedding
            /\ UNCHANGED userEmbStore
    /\ pc' = "content_based"
    /\ UNCHANGED <<livePosts, postCreator, userInterests, friends, interactionLog, contentEmbStore>>
    /\ UNCHANGED <<argVars, sourceVars, candidates, scored, diversified, final_recommendations, result,
                   outcome, exc, raisedAt>>
    /\ UNCHANGED outerVars

\* hybrid.py:106-107 with _get_content_based_candidates
ContentBasedSource ==
    /\ pc = "content_based"
    /\ LET visits == ContentBasedVisits(user_id, exclude_ids)
       IN IF ContentBasedRaises(visits)
          THEN Raise("KeyError") /\ UNCHANGED cbOut
          ELSE /\ cbOut' = ContentBasedCandidates(visits)
               /\ pc' = "collaborative"
               /\ UNCHANGED <<exc, raisedAt>>
    /\ UNCHANGED <<worldVars, argVars, user_embedding, cfOut, socOut, trOut,
                   candidates, scored, diversified, final_recommendations, result, outcome>>
    /\ UNCHANGED outerVars

\* hybrid.py:110-111 with _get_collaborative_candidates
CollaborativeSource ==
    /\ pc = "collaborative"
    /\ \E similar_users \in SimilarUserOrders(user_id, SimilarUsersLimit) :
          cfOut' = CollaborativeCandidates(similar_users, exclude_ids)
    /\ pc' = "social"
    /\ UNCHANGED <<worldVars, argVars, user_embedding, cbOut, socOut, trOut,
                   candidates, scored, diversified, final_recommendations, result, outcome, exc, raisedAt>>
    /\ UNCHANGED outerVars

\* hybrid.py:114-115 with _get_social_candidates
SocialSource ==
    /\ pc = "social"
    /\ \E friend_order \in Orderings(get_user_friends(user_id)) :
          socOut' = SocialCandidates(friend_order, exclude_ids)
    /\ pc' = "trending"
    /\ UNCHANGED <<worldVars, argVars, user_embedding, cbOut, cfOut, trOut,
                   candidates, scored, diversified, final_recommendations, result, outcome, exc, raisedAt>>
    /\ UNCHANGED outerVars

\* hybrid.py:118-119 with _get_trending_candidates: TypeError when the call
\* to get_trending_content does not bind
TrendingSource ==
    /\ pc = "trending"
    /\ IF TrendingCallBinds
       THEN /\ \E rows \in TrendingResults(TrendingDays, TrendingLimit) :
                  trOut' = TrendingCandidates(rows, exclude_ids)
            /\ pc' = "merge"
            /\ UNCHANGED <<exc, raisedAt>>
       ELSE Raise("TypeError") /\ UNCHANGED trOut
    /\ UNCHANGED <<worldVars, argVars, user_embedding, cbOut, cfOut, socOut,
                   candidates, scored, diversified, final_recommendations, result, outcome>>
    /\ UNCHANGED outerVars

\* a lookup of the stage fails (the database raises); nothing of the stage
\* is kept.  The embedding stage reads the database only when no features
\* were supplied; the trending stage fails before it reaches the database.
SourceStages == {"embedding", "content_based", "collaborative", "social"}

LookupFails ==
    /\ pc \in SourceStages
    /\ pc = "embedding" => ~user_features.given
    /\ Raise("OperationalError")
    /\ UNCHANGED <<worldVars, argVars, user_embedding, sourceVars,
                   candidates, scored, diversified, final_recommendations, result, outcome>>
    /\ UNCHANGED outerVars

\* variant: a handler that lets the exception go on to the caller
HandlerReraises == "raised"

\* hybrid.py:94-96: `except Exception` logs and returns []
HandlerOutcome == "returned"

HandleException ==
    /\ pc = "except"
    /\ result' = <<>>
    /\ outcome' = HandlerOutcome
    /\ pc' = "done"
    /\ UNCHANGED <<worldVars, argVars, user_embedding, sourceVars,
                   candidates, scored, diversified, final_recommendations, exc, raisedAt>>
    /\ UNCHANGED outerVars

Next ==
    \/ ResolveUserEmbedding
    \/ ContentBasedSource
    \/ CollaborativeSource
    \/ SocialSource
    \/ TrendingSource
    \/ LookupFails
    \/ HandleException

Spec == Init /\ [][Next]_vars

(***************************************************************************)
(* The stages after candidate generation                                   *)
(***************************************************************************)
\* hybrid.py:121-129: keep the first candidate seen for each content_id
RECURSIVE UniqueFold(_, _)
UniqueFold(cands, seen_ids) ==
    IF cands = <<>> THEN <<>>
    ELSE IF Head(cands).content_id \notin seen_ids
         THEN <<Head(cands)>> \o UniqueFold(Tail(cands), seen_ids \cup {Head(cands).content_id})
         ELSE UniqueFold(Tail(cands), seen_ids)

Reverse(seq) == [i \in 1..Len(seq) |-> seq[Len(seq) + 1 - i]]

\* variant: the last candidate seen for each content_id wins
KeepLastCandidates(cands) == Reverse(UniqueFold(Reverse(cands), {}))

UniqueCandidates(cands) == UniqueFold(cands, {})

\* hybrid.py:143-147
ContentType(cd) ==
    IF cd.is_poll THEN "poll"
    ELSE IF cd.original_post_id # <<>> THEN "repost"
    ELSE "post"

\* variant: the filter lets every candidate through
FilterNothing(cands, flt) == cands

\* hybrid.py:131-156: with a non-empty filters dict that has content_types,
\* drop the candidates whose row is gone or whose type is not asked for
FilterCandidates(cands, flt) ==
    LET keep(c) == /\ ContentExists(c.content_id)
                   /\ ContentType(get_content_by_id(c.content_id)) \in flt.content_types
    IN IF flt.on THEN SelectSeq(cands, keep) ELSE cands

\* variant: weights that favour popularity and recency
flat_weights == [collaborative |-> 3, content_based |-> 3, popularity |-> 2, recency |-> 2]

\* self.model_weights (hybrid.py:21-26), in tenths
model_weights == [collaborative |-> 4, content_based |-> 4, popularity |-> 1, recency |-> 1]

\* the embedding _score_candidates uses for a candidate: the stored one, or
\* the one it creates when none is stored
ContentEmbeddingFor(store, cid) ==
    IF cid \in DOMAIN store /\ store[cid] # <<>> THEN store[cid] ELSE CreateContentEmbedding(cid)

\* hybrid.py:177-180
ContentSimilarity(uemb, cemb) ==
    IF uemb # <<>> /\ cemb # <<>> THEN CalculateSimilarity(uemb, cemb) ELSE 0

\* hybrid.py:188-193
FinalScore(collaborative_score, content_similarity, popularity_score, recency_score) ==
    model_weights.collaborative * collaborative_score
    + model_weights.content_based * content_similarity
    + model_weights.popularity * popularity_score
    + model_weights.recency * recency_score

Over(score, tenths) == score * 10 > tenths * ScoreScale

\* variant: "recent" is attached before "popular"
FactorsRecentFirst(c, content_similarity) ==
    LET found ==
            (IF Over(c.collaborative_score, 3) THEN <<"similar_users">> ELSE <<>>)
            \o (IF Over(content_similarity, 3) THEN <<"your_interests">> ELSE <<>>)
            \o (IF Over(c.recency_score, 7) THEN <<"recent">> ELSE <<>>)
            \o (IF Over(c.popularity_score, 3) THEN <<"popular">> ELSE <<>>)
            \o (IF c.has_social /\ Over(c.social_score, 3) THEN <<"friend_activity">> ELSE <<>>)
    IN IF found = <<>> THEN <<"recommended_for_you">> ELSE found

\* hybrid.py:196-211
Factors(c, content_similarity) ==
    LET found ==
            (IF Over(c.collaborative_score, 3) THEN <<"similar_users">> ELSE <<>>)
            \o (IF Over(content_similarity, 3) THEN <<"your_interests">> ELSE <<>>)
            \o (IF Over(c.popularity_score, 3) THEN <<"popular">> ELSE <<>>)
            \o (IF Over(c.recency_score, 7) THEN <<"recent">> ELSE <<>>)
            \o (IF c.has_social /\ Over(c.social_score, 3) THEN <<"friend_activity">> ELSE <<>>)
    IN IF found = <<>> THEN <<"recommended_for_you">> ELSE found

\* the dict built at hybrid.py:214-222
ScoredCandidate(c, content_similarity) ==
    [content_id |-> c.content_id,
     score |-> FinalScore(c.collaborative_score, content_similarity, c.popularity_score, c.recency_score),
     content_similarity |-> content_similarity,
     collaborative_score |-> c.collaborative_score,
     popularity_score |-> c.popularity_score,
     recency_score |-> c.recency_score,
     factors |-> Factors(c, content_similarity)]

\* variant: an ascending sort turned round, which puts equal scores in
\* reverse input order
SortAscendingReversed(cands) ==
    Reverse(Items(SortPairs([i \in 1..Len(cands) |-> <<cands[i].score, cands[i]>>])))

\* list.sort(key=score, reverse=True): descending, equal scores in input order
SortByScoreDesc(cands) == Items(SortPairs([i \in 1..Len(cands) |-> <<0 - cands[i].score, cands[i]>>]))

\* _score_candidates: the list it returns
ScoreCandidatesList(uemb, cands, store) ==
    SortByScoreDesc([i \in 1..Len(cands) |->
        ScoredCandidate(cands[i],
            ContentSimilarity(uemb, ContentEmbeddingFor(store, cands[i].content_id)))])

\* ... and the embedding store after its first n candidates
StoreAfterScoring(store, cands, n) ==
    LET scored_ids == {cands[i].content_id : i \in 1..n}
    IN [cid \in DOMAIN store |->
          IF cid \in scored_ids /\ store[cid] = <<>>
          THEN StoreAfterCreateContentEmbedding(store, cid)[cid]
          ELSE store[cid]]

PerCreatorCap == 2
DiversifyCap == 50
TopKept == 5

\* hybrid.py:240-254: one turn of the creator-cap loop; `done` is the list so
\* far, `seen` the per-creator counts, and nothing is added once the loop
\* has left at DiversifyCap entries
CapStep(st, c) ==
    IF Len(st.done) >= DiversifyCap \/ ~ContentExists(c.content_id) THEN st
    ELSE LET creator_id == get_content_by_id(c.content_id).user_id
             creator_count == IF creator_id \in DOMAIN st.seen THEN st.seen[creator_id] ELSE 0
         IN IF creator_count < PerCreatorCap
            THEN [done |-> Append(st.done, c),
                  seen |-> (creator_id :> creator_count + 1) @@ st.seen]
            ELSE st

\* hybrid.py:238-254: the creator-cap loop over cands[lo..hi], first half
\* then second half; the loop breaks at DiversifyCap entries
RECURSIVE CapPass(_, _, _, _)
CapPass(cands, lo, hi, st) ==
    IF lo > hi THEN st
    ELSE IF lo = hi THEN CapStep(st, cands[lo])
    ELSE LET mid == (lo + hi) \div 2
             half == CapPass(cands, lo, mid, st)
         IN IF Len(half.done) >= DiversifyCap THEN half ELSE CapPass(cands, mid + 1, hi, half)

\* hybrid.py:258-263: one turn of the backfill loop
BackfillStep(done, c) ==
    IF Len(done) >= DiversifyCap \/ c \in Range(done) THEN done ELSE Append(done, c)

\* variant: nothing is appended after the creator-cap pass
NoBackfill(cands, lo, hi, done) == done

\* hybrid.py:257-263: the backfill loop over cands[lo..hi], first half then
\* second half; the loop breaks at DiversifyCap entries
RECURSIVE Backfill(_, _, _, _)
Backfill(cands, lo, hi, done) ==
    IF lo > hi THEN done
    ELSE IF lo = hi THEN BackfillStep(done, cands[lo])
    ELSE LET mid == (lo + hi) \div 2
             half == Backfill(cands, lo, mid, done)
         IN IF Len(half) >= DiversifyCap THEN half ELSE Backfill(cands, mid + 1, hi, half)

\* variant: the first DiversifyCap candidates, whoever created them
DiversifiedUncapped(cands) == Prefix(cands, DiversifyCap)

\* hybrid.py:231-263
Diversified(cands) ==
    LET capped == CapPass(cands, 1, Len(cands), [done |-> <<>>, seen |-> <<>>]).done
    IN IF Len(capped) < DiversifyCap THEN Backfill(cands, 1, Len(cands), capped) ELSE capped

\* random.uniform(1.0, 1.1), in percent: its two ends; 100 also stands for
\* "not boosted"
BoostFactors == {100, 110}

\* variant: the boosted entries are left where they were
ExploreUnsorted(admitted, boosts) ==
    [i \in 1..Len(admitted) |->
        IF i <= TopKept THEN admitted[i]
        ELSE [admitted[i] EXCEPT !.score = (admitted[i].score * boosts[i - TopKept]) \div 100]]

\* variant: every entry is boosted and sorted, the first five included
ExploreAll(admitted, boosts) ==
    SortByScoreDesc([i \in 1..Len(admitted) |->
        [admitted[i] EXCEPT !.score =
            (admitted[i].score * (IF i <= Len(boosts) THEN boosts[i] ELSE 100)) \div 100]])

\* variant: the entries past the first five are sorted by rising score
ExploreTailAscending(admitted, boosts) ==
    LET rest == SubSeq(admitted, TopKept + 1, Len(admitted))
        boosted == [i \in 1..Len(rest) |->
                       [rest[i] EXCEPT !.score = (rest[i].score * boosts[i]) \div 100]]
    IN Prefix(admitted, TopKept) \o Reverse(SortByScoreDesc(boosted))

\* hybrid.py:267-285: the first five stay, the others are boosted as `boosts`
\* says and sorted again
Explore(admitted, boosts) ==
    LET rest == SubSeq(admitted, TopKept + 1, Len(admitted))
        boosted == [i \in 1..Len(rest) |->
                       [rest[i] EXCEPT !.score = (rest[i].score * boosts[i]) \div 100]]
    IN Prefix(admitted, TopKept) \o SortByScoreDesc(boosted)

\* seq[:n] of Python
PySliceTo(seq, n) == IF n >= 0 THEN Prefix(seq, n) ELSE Prefix(seq, Max(0, Len(seq) + n))

\* variant: the loop ends at the first candidate whose lookup fails
RecommendationsUntilMissing(final, lim) ==
    LET first == PySliceTo(final, lim)
        stop == IF \A i \in 1..Len(first) : ContentExists(first[i].content_id)
                THEN Len(first) + 1
                ELSE CHOOSE i \in 1..Len(first) :
                        /\ ~ContentExists(first[i].content_id)
                        /\ \A j \in 1..(i - 1) : ContentExists(first[j].content_id)
    IN [i \in 1..(stop - 1) |->
          [content_id |-> first[i].content_id, score |-> first[i].score, factors |-> first[i].factors]]

\* hybrid.py:76-92
Recommendations(final, lim) ==
    LET found(rec) == ContentExists(rec.content_id)
        kept == SelectSeq(PySliceTo(final, lim), found)
    IN [i \in 1..Len(kept) |->
          [content_id |-> kept[i].content_id, score |-> kept[i].score, factors |-> kept[i].factors]]

(***************************************************************************)
(* recommend() past candidate generation.  The four lists are those the    *)
(* sources build when their lookups answer: hashtag rows that carry        *)
(* engagement_score, and a content repository whose get_trending_content   *)
(* takes the call of hybrid.py:408.                                        *)
(***************************************************************************)
HashtagRow(p) ==
    [engagement_score |->
        WeightedEngagement(Post(p).total_reactions, Post(p).total_comments, Post(p).total_shares)]
    @@ get_content_by_id(p)

\* up to two content-based candidates: two posts in catalogue order, or one
\* post found under two hashtags
CbLists ==
    {s \in SeqsUpTo({CbCandidate(HashtagRow(p)) : p \in PostIds}, 2) :
        Len(s) = 2 => s[1].content_id <= s[2].content_id}
CfLists == SeqsUpTo({CfCandidate(x, get_content_by_id(x.content_id)) :
                        x \in {Like(p) : p \in PostIds} \cup {Share(1)}}, 1)
SocLists == SeqsUpTo({SocCandidate(get_content_by_id(p)) : p \in PostIds}, 1)
\* get_trending_content(days=3) answers with posts of the last three days
TrLists ==
    SeqsUpTo({TrCandidate(TrendingRow(p)) :
                 p \in {q \in PostIds : /\ Post(q).created_at # <<>>
                                         /\ Post(q).created_at[1] <= TrendingDays}}, 1)

FilterChoices ==
    {NoFilters,
     [content_types |-> {"poll"}, on |-> TRUE],
     [content_types |-> {"poll", "repost"}, on |-> TRUE]}

InitStages ==
    /\ livePosts \in {PostIds, PostIds \ {1}}
    /\ postCreator = CatalogueCreators(PostIds)
    /\ InitOuter
    /\ userInterests = [u \in ExistingUsers |-> <<>>]
    /\ friends = {}
    /\ interactionLog = [u \in ExistingUsers |-> <<>>]
    /\ userEmbStore = [u \in ExistingUsers |-> <<>>]
    /\ user_id = 1 /\ user_features = NoFeatures /\ exclude_ids = {}
    /\ filters \in FilterChoices
    /\ limit \in {-1, 0, MaxLimit}
    /\ \E warm \in BOOLEAN :
          /\ user_embedding = IF warm THEN <<600, 800>> ELSE <<>>
          /\ contentEmbStore = [p \in PostIds |-> IF warm /\ p = 1 THEN <<1000, 0>> ELSE <<>>]
    /\ cbOut \in CbLists /\ cfOut \in CfLists /\ socOut \in SocLists /\ trOut \in TrLists
    /\ candidates = <<>> /\ scored = <<>> /\ diversified = <<>> /\ final_recommendations = <<>>
    /\ result = <<>>
    /\ outcome = "running" /\ exc = "none" /\ raisedAt = "none"
    /\ pc = "merge"

\* hybrid.py:121-156, the end of _get_recommendation_candidates
MergeCandidates ==
    /\ pc = "merge"
    /\ candidates' = FilterCandidates(UniqueCandidates(cbOut \o cfOut \o socOut \o trOut), filters)
    /\ pc' = "score"
    /\ UNCHANGED <<worldVars, argVars, user_embedding, sourceVars,
                   scored, diversified, final_recommendations, result, outcome, exc, raisedAt>>
    /\ UNCHANGED outerVars

\* hybrid.py:71 with _score_candidates
ScoreCandidates ==
    /\ pc = "score"
    /\ scored' = ScoreCandidatesList(user_embedding, candidates, contentEmbStore)
    /\ contentEmbStore' = StoreAfterScoring(contentEmbStore, candidates, Len(candidates))
    /\ pc' = "diversify"
    /\ UNCHANGED <<livePosts, postCreator, userInterests, friends, interactionLog, userEmbStore>>
    /\ UNCHANGED <<argVars, user_embedding, sourceVars, candidates,
                   diversified, final_recommendations, result, outcome, exc, raisedAt>>
    /\ UNCHANGED outerVars

\* the boosts random.random() and random.uniform() can give the entries
\* past the top: any factor for the first MaxBoostSpan of them, none for the others
BoostChoices(n) ==
    {[i \in 1..n |-> IF i <= MaxBoostSpan THEN head[i] ELSE 100] :
        head \in [1..Min(n, MaxBoostSpan) -> BoostFactors]}

\* hybrid.py:74 with _diversify_recommendations
DiversifyRecommendations ==
    /\ pc = "diversify"
    /\ diversified' = Diversified(scored)
    /\ \E boosts \in BoostChoices(Len(diversified') - Min(TopKept, Len(diversified'))) :
          final_recommendations' = Explore(diversified', boosts)
    /\ pc' = "respond"
    /\ UNCHANGED <<worldVars, argVars, user_embedding, sourceVars, candidates,
                   scored, result, outcome, exc, raisedAt>>
    /\ UNCHANGED outerVars

\* hybrid.py:76-92
PrepareResponse ==
    /\ pc = "respond"
    /\ result' = Recommendations(final_recommendations, limit)
    /\ outcome' = "returned"
    /\ pc' = "done"
    /\ UNCHANGED <<worldVars, argVars, user_embedding, sourceVars, candidates,
                   scored, diversified, final_recommendations, exc, raisedAt>>
    /\ UNCHANGED outerVars

\* a database lookup of a stage raises: the stage's list is not produced;
\* the embeddings _score_candidates had stored by then stay stored
StageLookupFails ==
    /\ \/ pc = "merge" /\ filters.on /\ cbOut \o cfOut \o socOut \o trOut # <<>>
       \/ pc = "score" /\ candidates # <<>>
       \/ pc = "diversify" /\ scored # <<>>
       \/ pc = "respond" /\ PySliceTo(final_recommendations, limit) # <<>>
    /\ \E n \in 0..Max(0, Len(candidates) - 1) :
          contentEmbStore' = IF pc = "score" THEN StoreAfterScoring(contentEmbStore, candidates, n)
                             ELSE contentEmbStore
    /\ Raise("OperationalError")
    /\ UNCHANGED <<livePosts, postCreator, userInterests, friends, interactionLog, userEmbStore>>
    /\ UNCHANGED <<argVars, user_embedding, sourceVars, candidates,
                   scored, diversified, final_recommendations, result, outcome>>
    /\ UNCHANGED outerVars

NextStages ==
    \/ MergeCandidates
    \/ ScoreCandidates
    \/ DiversifyRecommendations
    \/ PrepareResponse
    \/ StageLookupFails
    \/ HandleException

StageSpec == InitStages /\ [][NextStages]_vars

(***************************************************************************)
(* Scoring, diversification and response over candidate lists of every     *)
(* length of interest: short ones, and ones around the cap of 50.  The     *)
(* list is what one source built for posts 1..n; who created each post,    *)
(* which of them are gone and whether the caller has an embedding vary.    *)
(***************************************************************************)
ListLengths == (0..MaxShort) \cup ((DiversifyCap - 1)..(DiversifyCap + MaxOver))

ContentEmbeddingLength == 10 + 6 + 17

\* an embedding a caller may supply: all weight on the first hashtag category
TechEmbedding == [i \in 1..ContentEmbeddingLength |-> IF i = 10 + 6 + 1 THEN EmbScale ELSE 0]

CreatorPatterns(ids) ==
    {CatalogueCreators(ids),
     [p \in ids |-> IF p <= 3 THEN 100 ELSE 100 + p],
     [p \in ids |-> 100 + (p + 2) \div 3]}

GonePatterns(ids) == {{}, ids \cap {1}, ids \cap {2, 6}}

InitRank ==
    /\ \E n \in ListLengths :
          /\ \E gone \in GonePatterns(1..n) : livePosts = (1..n) \ gone
          /\ postCreator \in CreatorPatterns(1..n)
          /\ contentEmbStore = [p \in 1..n |-> <<>>]
          /\ \E source \in {"content_based", "collaborative"} :
                /\ cbOut = IF source = "content_based"
                           THEN [p \in 1..n |-> CbCandidate(HashtagRow(p))] ELSE <<>>
                /\ cfOut = IF source = "collaborative"
                           THEN [p \in 1..n |-> CfCandidate(Like(p), get_content_by_id(p))] ELSE <<>>
                /\ candidates = cbOut \o cfOut
    /\ socOut = <<>> /\ trOut = <<>>
    /\ userInterests = [u \in ExistingUsers |-> <<>>]
    /\ friends = {}
    /\ interactionLog = [u \in ExistingUsers |-> <<>>]
    /\ userEmbStore = [u \in ExistingUsers |-> <<>>]
    /\ user_id = 1 /\ exclude_ids = {} /\ filters = NoFilters
    /\ \E supplied \in {<<>>, TechEmbedding} :
          /\ user_features = [given |-> TRUE, embedding |-> supplied]
          /\ user_embedding = supplied
    /\ limit \in {MaxLimit, DiversifyCap}
    /\ scored = <<>> /\ diversified = <<>> /\ final_recommendations = <<>>
    /\ result = <<>>
    /\ outcome = "running" /\ exc = "none" /\ raisedAt = "none"
    /\ pc = "score"
    /\ InitOuter

NextRank ==
    \/ ScoreCandidates
    \/ DiversifyRecommendations
    \/ PrepareResponse

RankSpec == InitRank /\ [][NextRank]_vars

(***************************************************************************)
(* POST /recommendations/{user_id} (routes.py:51-128) around recommend()   *)
(* as the service wires it                                                 *)
(***************************************************************************)
InitEndpoint ==
    /\ InitWorld
    /\ user_id \in Callers
    /\ \E stored \in BOOLEAN :
          userEmbStore = [u \in ExistingUsers |-> IF u = 1 /\ stored THEN <<600, 800>> ELSE <<>>]
    /\ user_features = NoFeatures
    /\ exclude_ids = {}
    /\ filters \in FilterChoices
    /\ limit \in -1..MaxLimit
    /\ pc = "route"
    /\ InitLocals
    /\ InitOuter

\* an exception raised inside the try block of the route
RouteRaise(kind) ==
    /\ pc' = "route_except"
    /\ exc' = kind
    /\ raisedAt' = pc

\* routes.py:62-89: the user lookup, then the call of model.recommend
RouteCheckUser ==
    /\ pc = "route"
    /\ IF UserExists(user_id)
       THEN pc' = "embedding" /\ UNCHANGED <<exc, raisedAt>>
       ELSE RouteRaise("HTTPException_404")
    /\ UNCHANGED <<worldVars, argVars, user_embedding, sourceVars, candidates, scored,
                   diversified, final_recommendations, result, outcome>>
    /\ UNCHANGED outerVars

\* routes.py:96-117
ContentItem(rec) ==
    LET content_data == get_content_by_id(rec.content_id)
    IN [content_id |-> content_data.content_id,
        creator_id |-> content_data.user_id,
        content_type |-> ContentType(content_data),
        score |-> rec.score,
        relevance_factors |-> rec.factors]

ResponseItems(recommendations) ==
    LET found(rec) == ContentExists(rec.content_id)
        kept == SelectSeq(recommendations, found)
    IN [i \in 1..Len(kept) |-> ContentItem(kept[i])]

\* routes.py:91-124: recommend() has returned; the route answers
RouteRespond ==
    /\ pc = "done"
    /\ http_response' = [status_code |-> 200, recommendations |-> ResponseItems(result)]
    /\ pc' = "responded"
    /\ UNCHANGED <<worldVars, argVars, user_embedding, sourceVars, candidates, scored,
                   diversified, final_recommendations, result, outcome, exc, raisedAt, voizy,
                   embeddings, server, features>>

\* the database raises in the user lookup of routes.py:62
RouteLookupFails ==
    /\ pc = "route"
    /\ RouteRaise("OperationalError")
    /\ UNCHANGED <<worldVars, argVars, user_embedding, sourceVars, candidates, scored,
                   diversified, final_recommendations, result, outcome>>
    /\ UNCHANGED outerVars

\* routes.py:126-128: `except Exception` answers with status 500, whatever
\* was raised in the try block
RouteExceptStatus(kind) == 500

RouteExcept ==
    /\ pc = "route_except"
    /\ http_response' = [status_code |-> RouteExceptStatus(exc), recommendations |-> <<>>]
    /\ pc' = "responded"
    /\ UNCHANGED <<worldVars, argVars, user_embedding, sourceVars, candidates, scored,
                   diversified, final_recommendations, result, outcome, exc, raisedAt, voizy,
                   embeddings, server, features>>

NextEndpoint ==
    \/ RouteCheckUser
    \/ RouteLookupFails
    \/ Next
    \/ RouteRespond
    \/ RouteExcept

EndpointSpec == InitEndpoint /\ [][NextEndpoint]_vars

(***************************************************************************)
(* The voizy package: VoizyRecommender over its own tables.  `voizy` holds *)
(* the recommender object (model, user_mapping, post_mapping), the rows of *)
(* the database it reads, and the last call of get_recommendations.        *)
(***************************************************************************)
VoizyUsers == {1, 2}
ReactionWeight == 3

\* posts.views of the catalogue
VoizyViews(p) == 4 * p

\* the rankings model.predict may give: by post id, either way round
Predictions(posts) == {[p \in posts |-> p], [p \in posts |-> 0 - p]}

NoCall == [user_id |-> 0, n |-> 0, exclude_seen |-> FALSE, seen_posts |-> {}, returned |-> <<>>]

InitVoizy ==
    /\ \E recent \in {PostIds, PostIds \ {1}} :
          voizy = [pc |-> "serving",
                   model |-> FALSE,
                   user_mapping |-> {},
                   post_mapping |-> {},
                   prediction |-> <<>>,
                   reactions |-> [u \in VoizyUsers |-> {}],
                   recent |-> recent,
                   last |-> NoCall]
    /\ livePosts = PostIds
    /\ postCreator = CatalogueCreators(PostIds)
    /\ userInterests = [u \in ExistingUsers |-> <<>>]
    /\ friends = {}
    /\ interactionLog = [u \in ExistingUsers |-> <<>>]
    /\ userEmbStore = [u \in ExistingUsers |-> <<>>]
    /\ contentEmbStore = [q \in PostIds |-> <<>>]
    /\ user_id = 0 /\ user_features = NoFeatures /\ exclude_ids = {}
    /\ filters = NoFilters /\ limit = 0
    /\ pc = "idle"
    /\ InitLocals
    /\ http_response = NoResponse
    /\ embeddings = NoTables /\ server = NoServer /\ features = NoExtraction

hybridVars == <<worldVars, argVars, user_embedding, sourceVars, candidates, scored, diversified,
                final_recommendations, result, outcome, exc, raisedAt, pc, http_response>>

ReactionRows(v) == SumSeq([i \in 1..Cardinality(VoizyUsers) |-> Cardinality(v.reactions[i])])

\* a user reacts to a post: a row in post_reactions
VoizyReact ==
    /\ ReactionRows(voizy) < MaxInteractions
    /\ \E u \in VoizyUsers, p \in PostIds :
          /\ p \notin voizy.reactions[u]
          /\ voizy' = [voizy EXCEPT !.reactions[u] = @ \cup {p}]
    /\ UNCHANGED <<hybridVars, embeddings, server, features>>

\* engine.py:59-193, prepare_data and train_model over the interactions
\* of the moment
VoizyTrain ==
    /\ \E u \in VoizyUsers : voizy.reactions[u] # {}
    /\ LET unique_user_ids == {u \in VoizyUsers : voizy.reactions[u] # {}}
           unique_post_ids == UNION {voizy.reactions[u] : u \in VoizyUsers}
       IN \E predict \in Predictions(unique_post_ids) :
             voizy' = [voizy EXCEPT !.model = TRUE,
                                    !.user_mapping = unique_user_ids,
                                    !.post_mapping = unique_post_ids,
                                    !.prediction = predict]
    /\ UNCHANGED <<hybridVars, embeddings, server, features>>

\* data.py:309-327 with USER_INTERACTIONS_QUERY
get_user_interactions(v, u) == v.reactions[u]

\* POPULAR_POSTS_QUERY (queries.py:164-177): views + 3 per reaction
PopularScore(v, p) ==
    VoizyViews(p) + ReactionWeight * Cardinality({u \in VoizyUsers : p \in v.reactions[u]})

\* data.py:330-354
get_popular_posts(v, n) ==
    LET rows == SortPairs([i \in 1..MaxPosts |-> <<0 - PopularScore(v, i), i>>])
        in_window(row) == row[2] \in v.recent
    IN Prefix(Items(SelectSeq(rows, in_window)), n)

\* engine.py:271-275: the answer for a user the model was not trained on
PopularFallback(v, u, n, exclude_seen) ==
    LET popular_posts == get_popular_posts(v, n)
    IN [i \in 1..Len(popular_posts) |-> [post_id |-> popular_posts[i], score |-> 0]]

\* engine.py:277-302: the answer for a user of the training data
PersonalRanking(v, u, n, exclude_seen) ==
    LET mapped(p) == p \in v.post_mapping
        post_ids == SelectSeq(PostIdSeq, mapped)
        post_scores == Items(SortPairs([i \in 1..Len(post_ids) |->
                          <<0 - v.prediction[post_ids[i]],
                            [post_id |-> post_ids[i], score |-> v.prediction[post_ids[i]]]>>]))
        unseen(ps) == ps.post_id \notin get_user_interactions(v, u)
    IN Prefix(IF exclude_seen THEN SelectSeq(post_scores, unseen) ELSE post_scores, n)

\* VoizyRecommender.get_recommendations (engine.py:250-302)
VoizyRecommendations(v, u, n, exclude_seen) ==
    IF ~v.model THEN <<>>
    ELSE IF u \notin v.user_mapping THEN PopularFallback(v, u, n, exclude_seen)
    ELSE PersonalRanking(v, u, n, exclude_seen)

VoizyGetRecommendations ==
    /\ \E u \in VoizyUsers, n \in 1..MaxLimit, exclude_seen \in BOOLEAN :
          voizy' = [voizy EXCEPT !.last =
                       [user_id |-> u, n |-> n, exclude_seen |-> exclude_seen,
                        seen_posts |-> get_user_interactions(voizy, u),
                        returned |-> VoizyRecommendations(voizy, u, n, exclude_seen)]]
    /\ UNCHANGED <<hybridVars, embeddings, server, features>>

NextVoizy ==
    \/ VoizyReact
    \/ VoizyTrain
    \/ VoizyGetRecommendations

VoizySpec == InitVoizy /\ [][NextVoizy]_vars


(***************************************************************************)
(* The first stage of recommend() alone, over every combination of a       *)
(* supplied and a stored user embedding                                    *)
(***************************************************************************)
SuppliedChoices == {NoFeatures, [given |-> TRUE, embedding |-> <<1000, 0>>]}
StoredChoices == {<<>>, <<600, 800>>}

InitResolve ==
    /\ InitWorld
    /\ user_id \in Callers
    /\ user_features \in SuppliedChoices
    /\ \E stored \in StoredChoices :
          userEmbStore = [u \in ExistingUsers |-> IF u = 1 THEN stored ELSE <<>>]
    /\ exclude_ids = {}
    /\ filters = NoFilters
    /\ limit = MaxLimit
    /\ pc = "embedding"
    /\ InitLocals
    /\ InitOuter

NextResolve ==
    \/ ResolveUserEmbedding
    \/ LookupFails
    \/ HandleException

ResolveSpec == InitResolve /\ [][NextResolve]_vars

(***************************************************************************)
(* Tables user_embeddings and content_embeddings, row by row.  Neither has *)
(* a unique key over (owner, embedding_type); embedding_id is the only key.*)
(* updated_at is the clock reading in whole ticks of the column's          *)
(* resolution.                                                             *)
(***************************************************************************)
MaxWrites == 3
MaxClock == 2

EmbeddingOwners ==
    {[table |-> "user_embeddings", id |-> 1], [table |-> "content_embeddings", id |-> 1]}
WrittenVectors == {<<600, 800>>, <<1000, 0>>, <<0, 0>>}

\* json.dumps of a list of numbers, token by token, and json.loads of it
JsonNumber(x) == [tok |-> "number", value |-> x]

JsonDumps(v) ==
    <<[tok |-> "["]>>
    \o ConcatAll([i \in 1..Len(v) |->
          IF i = 1 THEN <<JsonNumber(v[i])>> ELSE <<[tok |-> ","], JsonNumber(v[i])>>])
    \o <<[tok |-> "]"]>>

JsonLoads(text) ==
    LET isNumber(t) == t.tok = "number"
        numbers == SelectSeq(text, isNumber)
    IN [i \in 1..Len(numbers) |-> numbers[i].value]

\* the rows the filter of both queries keeps
RowsOf(rows, owner) ==
    {i \in 1..Len(rows) : /\ rows[i].table = owner.table
                          /\ rows[i].owner_id = owner.id
                          /\ rows[i].embedding_type = "combined"}

\* .order_by(updated_at.desc()).first(): a row with the latest stamp, any of
\* them when several carry it
LatestRows(rows, owner) ==
    {i \in RowsOf(rows, owner) : \A j \in RowsOf(rows, owner) : rows[j].updated_at <= rows[i].updated_at}

\* every value get_user_embedding / get_content_embedding may return
\* (<<>> for None)
EmbeddingReads(rows, owner) ==
    IF RowsOf(rows, owner) = {} THEN {<<>>}
    ELSE {IF rows[i].embedding_vector # <<>> THEN JsonLoads(rows[i].embedding_vector) ELSE <<>> :
             i \in LatestRows(rows, owner)}

\* .first() of the update's query, which has no ORDER BY: any matching row,
\* 0 for None
FirstRows(rows, owner) == IF RowsOf(rows, owner) = {} THEN {0} ELSE RowsOf(rows, owner)

\* db.add(new_embedding) as committed
InsertedRow(rows, owner, vector, now) ==
    Append(rows, [embedding_id |-> Len(rows) + 1, table |-> owner.table, owner_id |-> owner.id,
                  embedding_vector |-> JsonDumps(vector), embedding_type |-> "combined",
                  updated_at |-> now])

\* variant of the update below that keeps the old row and adds one
RowAddedAsHistory(rows, i, vector, now) ==
    InsertedRow(rows, [table |-> rows[i].table, id |-> rows[i].owner_id], vector, now)

\* the assignments to the row found, as committed
UpdatedRow(rows, i, vector, now) ==
    [rows EXCEPT ![i].embedding_vector = JsonDumps(vector), ![i].updated_at = now]

\* update_user_embedding / update_content_embedding by one session with no
\* other session writing
RowsAfterUpdate(rows, owner, vector, now) ==
    {IF i = 0 THEN InsertedRow(rows, owner, vector, now) ELSE UpdatedRow(rows, i, vector, now) :
        i \in FirstRows(rows, owner)}

tableFrame == <<worldVars, argVars, user_embedding, sourceVars, candidates, scored, diversified,
                final_recommendations, result, outcome, exc, raisedAt, pc, http_response, voizy, server,
                features>>

\* nothing of recommend() or of the voizy package runs
InitIdle ==
    /\ livePosts = PostIds
    /\ postCreator = CatalogueCreators(PostIds)
    /\ userInterests = [u \in ExistingUsers |-> <<>>]
    /\ friends = {}
    /\ interactionLog = [u \in ExistingUsers |-> <<>>]
    /\ userEmbStore = [u \in ExistingUsers |-> <<>>]
    /\ contentEmbStore = [q \in PostIds |-> <<>>]
    /\ user_id = 0 /\ user_features = NoFeatures /\ exclude_ids = {}
    /\ filters = NoFilters /\ limit = 0
    /\ pc = "idle"
    /\ InitLocals
    /\ http_response = NoResponse

(***************************************************************************)
(* One session writing and reading embeddings, call after call             *)
(***************************************************************************)
NoRead == [owner |-> <<>>, value |-> <<>>, writes |-> 0]

InitStore ==
    /\ InitIdle
    /\ voizy = NoVoizy /\ server = NoServer /\ features = NoExtraction
    /\ embeddings = [rows |-> <<>>, clock |-> 0, writes |-> 0,
                     written |-> [o \in EmbeddingOwners |-> <<>>],
                     last_read |-> NoRead]

StoreUpdate ==
    /\ embeddings.writes < MaxWrites
    /\ \E owner \in EmbeddingOwners, vector \in WrittenVectors :
          \E rows \in RowsAfterUpdate(embeddings.rows, owner, vector, embeddings.clock) :
             embeddings' = [embeddings EXCEPT !.rows = rows,
                                              !.writes = @ + 1,
                                              !.written[owner] = vector]
    /\ UNCHANGED tableFrame

StoreGet ==
    /\ \E owner \in EmbeddingOwners :
          \E value \in EmbeddingReads(embeddings.rows, owner) :
             embeddings' = [embeddings EXCEPT !.last_read = [owner |-> owner, value |-> value,
                                                               writes |-> embeddings.writes]]
    /\ UNCHANGED tableFrame

StoreTick ==
    /\ embeddings.clock < MaxClock
    /\ embeddings' = [embeddings EXCEPT !.clock = @ + 1]
    /\ UNCHANGED tableFrame

NextStore ==
    \/ StoreUpdate
    \/ StoreGet
    \/ StoreTick

StoreSpec == InitStore /\ [][NextStore]_vars

(***************************************************************************)
(* Two sessions, each inside a recommend() call that finds no embedding    *)
(* for the same owner, computes one and stores it.  A session sees what    *)
(* other sessions have committed.                                          *)
(***************************************************************************)
Sessions == {1, 2}

InitRace ==
    /\ InitIdle
    /\ voizy = NoVoizy /\ server = NoServer /\ features = NoExtraction
    /\ \E owner \in EmbeddingOwners, computed \in [Sessions -> WrittenVectors] :
          embeddings = [rows |-> <<>>, clock |-> 0, owner |-> owner, commits |-> <<>>,
                        sessions |-> [s \in Sessions |->
                            [pc |-> "get", vector |-> computed[s], found |-> 0, stamp |-> 0]]]

\* get_user_embedding / get_content_embedding in recommend() or the scorer
RaceGet(s) ==
    /\ embeddings.sessions[s].pc = "get"
    /\ \E stored \in EmbeddingReads(embeddings.rows, embeddings.owner) :
          embeddings' = [embeddings EXCEPT !.sessions[s].pc = IF stored = <<>> THEN "check" ELSE "done"]
    /\ UNCHANGED tableFrame

\* the query of update_*_embedding
RaceCheck(s) ==
    /\ embeddings.sessions[s].pc = "check"
    /\ \E i \in FirstRows(embeddings.rows, embeddings.owner) :
          embeddings' = [embeddings EXCEPT !.sessions[s].pc = "flush", !.sessions[s].found = i]
    /\ UNCHANGED tableFrame

\* the row is stamped with utcnow and the statement sent; an UPDATE waits
\* for the row lock
RaceFlush(s) ==
    /\ embeddings.sessions[s].pc = "flush"
    /\ embeddings.sessions[s].found # 0 =>
          \A t \in Sessions \ {s} :
             ~(embeddings.sessions[t].pc = "commit" /\ embeddings.sessions[t].found = embeddings.sessions[s].found)
    /\ embeddings' = [embeddings EXCEPT !.sessions[s].pc = "commit", !.sessions[s].stamp = embeddings.clock]
    /\ UNCHANGED tableFrame

\* COMMIT
RaceCommit(s) ==
    /\ embeddings.sessions[s].pc = "commit"
    /\ LET me == embeddings.sessions[s]
       IN embeddings' = [embeddings EXCEPT
             !.rows = IF me.found = 0 THEN InsertedRow(@, embeddings.owner, me.vector, me.stamp)
                      ELSE UpdatedRow(@, me.found, me.vector, me.stamp),
             !.commits = Append(@, s),
             !.sessions[s].pc = "done"]
    /\ UNCHANGED tableFrame

RaceTick ==
    /\ embeddings.clock < MaxClock
    /\ embeddings' = [embeddings EXCEPT !.clock = @ + 1]
    /\ UNCHANGED tableFrame

NextRace ==
    \/ \E s \in Sessions : RaceGet(s)
    \/ \E s \in Sessions : RaceCheck(s)
    \/ \E s \in Sessions : RaceFlush(s)
    \/ \E s \in Sessions : RaceCommit(s)
    \/ RaceTick

RaceSpec == InitRace /\ [][NextRace]_vars

(***************************************************************************)
(* The feature extractors on raw attributes of any size                    *)
(***************************************************************************)
MaxCounter == 20000

RawCounters == {0, 10, 100, MaxCounter}

RawPosts ==
    {[content_text |-> text, hashtags |-> <<"music">>,
      impressions |-> impressions, views |-> views,
      total_reactions |-> total_reactions, total_comments |-> 5, total_shares |-> total_shares] :
        text \in {"great code", "sad news https://t.co @bob"},
        impressions \in RawCounters, views \in RawCounters,
        total_reactions \in RawCounters, total_shares \in {0, MaxCounter}}

RawUsers ==
    {[interests |-> <<"Technology">>,
      activity |-> [post_frequency |-> post_frequency, comment_frequency |-> comment_frequency,
                    reaction_frequency |-> MaxCounter, share_frequency |-> 0,
                    active_days_per_week |-> active_days_per_week],
      interactions |-> interactions] :
        post_frequency \in RawCounters, comment_frequency \in RawCounters,
        active_days_per_week \in {0, 3, 7},
        interactions \in SeqsUpTo({Like(1), Share(1)}, MaxInteractions)}

featureFrame == <<worldVars, argVars, user_embedding, sourceVars, candidates, scored, diversified,
                  final_recommendations, result, outcome, exc, raisedAt, pc, http_response, voizy,
                  embeddings, server>>

InitFeatures ==
    /\ InitIdle
    /\ voizy = NoVoizy /\ embeddings = NoTables /\ server = NoServer
    /\ \/ \E post \in RawPosts :
             features = [pc |-> "extract", of |-> "content", raw |-> post, combined |-> <<>>]
       \/ \E user \in RawUsers :
             features = [pc |-> "extract", of |-> "user", raw |-> user, combined |-> <<>>]

\* content_features.py:82-91: text + engagement + hashtag
CombineContentEmbedding ==
    /\ features.pc = "extract" /\ features.of = "content"
    /\ features' = [features EXCEPT
          !.combined = ComputeTextEmbedding(ExtractTextFeatures(features.raw.content_text))
                       \o ComputeEngagementEmbedding(features.raw)
                       \o ComputeHashtagEmbedding(features.raw.hashtags),
          !.pc = "normalize"]
    /\ UNCHANGED featureFrame

\* user_features.py:66-75: interest + activity + interaction
CombineUserEmbedding ==
    /\ features.pc = "extract" /\ features.of = "user"
    /\ features' = [features EXCEPT
          !.combined = ComputeInterestEmbedding(features.raw.interests)
                       \o ComputeActivityEmbedding(features.raw.activity)
                       \o ComputeInteractionEmbedding(features.raw.interactions),
          !.pc = "normalize"]
    /\ UNCHANGED featureFrame

NextFeatures ==
    \/ CombineContentEmbedding
    \/ CombineUserEmbedding

FeatureSpec == InitFeatures /\ [][NextFeatures]_vars

(***************************************************************************)
(* The stages after candidate generation when every embedding in use was   *)
(* made by the feature extractors: the user's by create_user_embedding     *)
(* (now or in an earlier call), the posts' by create_content_embedding     *)
(* (in an earlier call for the posts of `kept`, during scoring otherwise)  *)
(***************************************************************************)
InitExtracted ==
    /\ livePosts \in {PostIds, PostIds \ {1}}
    /\ postCreator = CatalogueCreators(PostIds)
    /\ InitOuter
    /\ \E mine \in {<<>>, <<"Technology">>, <<"Technology", "music">>} :
          userInterests = [u \in ExistingUsers |-> IF u = 1 THEN mine ELSE <<>>]
    /\ friends = {}
    /\ \E log \in {<<>>, <<Like(1)>>, <<Like(1), Share(1)>>} :
          interactionLog = [u \in ExistingUsers |-> IF u = 1 THEN log ELSE <<>>]
    /\ user_id \in Callers /\ user_features = NoFeatures /\ exclude_ids = {}
    /\ filters = NoFilters
    /\ limit = MaxLimit
    /\ user_embedding = CreateUserEmbedding(user_id)
    /\ userEmbStore = StoreAfterCreateUserEmbedding([u \in ExistingUsers |-> <<>>], user_id)
    /\ \E kept \in {{}, {1}, PostIds} :
          contentEmbStore = [p \in PostIds |-> IF p \in kept THEN CreateContentEmbedding(p) ELSE <<>>]
    /\ cbOut = <<>> /\ cfOut \in CfLists /\ socOut \in SocLists /\ trOut \in TrLists
    /\ candidates = <<>> /\ scored = <<>> /\ diversified = <<>> /\ final_recommendations = <<>>
    /\ result = <<>>
    /\ outcome = "running" /\ exc = "none" /\ raisedAt = "none"
    /\ pc = "merge"

ExtractedSpec == InitExtracted /\ [][NextStages]_vars

(***************************************************************************)
(* The candidate a source builds from one row, for rows of any engagement  *)
(* and any creation time: NULL, in the past, or up to MaxSkewDays + 1 days *)
(* ahead of the clock of the call ((utcnow - created_at).days is -1 for a  *)
(* row stamped up to a day ahead)                                          *)
(***************************************************************************)
MaxSkewDays == 1

RawRows ==
    {[content_id |-> 1, created_at |-> created_at,
      total_reactions |-> reactions, total_comments |-> comments, total_shares |-> shares,
      reaction_count |-> reactions, comment_count |-> comments, share_count |-> shares,
      engagement_score |-> WeightedEngagement(reactions, comments, shares)] :
        created_at \in {<<>>, <<0>>, <<10>>, <<40>>} \cup {<<0 - d>> : d \in 1..MaxSkewDays},
        reactions \in RawCounters, comments \in {0, 5, MaxCounter}, shares \in {0, MaxCounter}}

InitEmit ==
    /\ InitIdle
    /\ voizy = NoVoizy /\ embeddings = NoTables /\ server = NoServer
    /\ \E row \in RawRows : features = [pc |-> "row", raw |-> row, source |-> "none", emitted |-> <<>>]

AfterEmit(source, candidate) ==
    [features EXCEPT !.pc = "emitted", !.source = source, !.emitted = candidate]

\* hybrid.py:299-312
EmitContentBased ==
    /\ features.pc = "row"
    /\ features' = AfterEmit("content_based", CbCandidate(features.raw))
    /\ UNCHANGED featureFrame

\* hybrid.py:346-366
EmitCollaborative ==
    /\ features.pc = "row"
    /\ \E x \in {Like(1), Share(1), Comment(1, 2)} :
          features' = AfterEmit("collaborative", CfCandidate(x, features.raw))
    /\ UNCHANGED featureFrame

\* hybrid.py:415-430
EmitTrending ==
    /\ features.pc = "row"
    /\ features' = AfterEmit("trending", TrCandidate(features.raw))
    /\ UNCHANGED featureFrame

NextEmit ==
    \/ EmitContentBased
    \/ EmitCollaborative
    \/ EmitTrending

EmitSpec == InitEmit /\ [][NextEmit]_vars

(***************************************************************************)
(* The voizy API process.  get_recommender() hands the one VoizyRecommender*)
(* of the process to the request handlers and to the refresh threads, so a *)
(* refresh trains the object the requests read.  Request handlers are      *)
(* coroutines without an await and run one at a time on the event loop; a  *)
(* refresh runs in a thread of its own and interleaves with them.  A model *)
(* and a mapping are known by the number of the training run that made     *)
(* them; run 0 is what load_model read at start-up.                        *)
(***************************************************************************)
MaxRuns == 2
MaxRequests == 3

CacheKeys == {1, 2}

NoEntry == [run |-> -1]
NoUse == [model |-> [run |-> -1, fitted |-> FALSE], user_mapping |-> -1, post_mapping |-> -1]
NoAnswer == [from_cache |-> FALSE, key |-> 0, computed_with |-> NoUse, completed |-> 0]

serverFrame == <<worldVars, argVars, user_embedding, sourceVars, candidates, scored, diversified,
                 final_recommendations, result, outcome, exc, raisedAt, pc, http_response, voizy,
                 embeddings, features>>

InitServer ==
    /\ InitIdle
    /\ voizy = NoVoizy /\ embeddings = NoTables /\ features = NoExtraction
    /\ server = [model |-> [run |-> 0, fitted |-> TRUE],
                 user_mapping |-> 0,
                 post_mapping |-> 0,
                 cache |-> [k \in CacheKeys |-> NoEntry],
                 refresh |-> [pc |-> "idle", run |-> 0],
                 completed |-> 0,
                 request |-> [pc |-> "idle", key |-> 0, used |-> NoUse],
                 served |-> 0,
                 last_answer |-> NoAnswer]

\* server.py:84-99 / endpoints.py:190-214: a refresh begins and fetches its data
RefreshStart ==
    /\ server.refresh.pc = "idle"
    /\ server.refresh.run < MaxRuns
    /\ server' = [server EXCEPT !.refresh = [pc |-> "user_mapping", run |-> @.run + 1]]
    /\ UNCHANGED serverFrame

\* engine.py:104
RefreshUserMapping ==
    /\ server.refresh.pc = "user_mapping"
    /\ server' = [server EXCEPT !.user_mapping = server.refresh.run, !.refresh.pc = "post_mapping"]
    /\ UNCHANGED serverFrame

\* engine.py:105
RefreshPostMapping ==
    /\ server.refresh.pc = "post_mapping"
    /\ server' = [server EXCEPT !.post_mapping = server.refresh.run, !.refresh.pc = "model"]
    /\ UNCHANGED serverFrame

\* engine.py:160-165: self.model = LightFM(...)
RefreshNewModel ==
    /\ server.refresh.pc = "model"
    /\ server' = [server EXCEPT !.model = [run |-> server.refresh.run, fitted |-> FALSE],
                                !.refresh.pc = "fit"]
    /\ UNCHANGED serverFrame

\* engine.py:168-174: self.model.fit(...) has run through its epochs
RefreshFit ==
    /\ server.refresh.pc = "fit"
    /\ server' = [server EXCEPT !.model.fitted = TRUE, !.refresh.pc = "clear"]
    /\ UNCHANGED serverFrame

\* server.py:124-128, endpoints.py:229-231: save_model, then recommendation_cache.clear()
RefreshClearCache ==
    /\ server.refresh.pc = "clear"
    /\ server' = [server EXCEPT !.cache = [k \in CacheKeys |-> NoEntry],
                                !.completed = server.refresh.run,
                                !.refresh.pc = "idle"]
    /\ UNCHANGED serverFrame

\* endpoints.py:66-79: a request comes in; an entry of its key younger than
\* the TTL answers it
RequestFromCache ==
    /\ server.request.pc = "idle"
    /\ server.served < MaxRequests
    /\ \E key \in CacheKeys :
          /\ server.cache[key] # NoEntry
          /\ server' = [server EXCEPT
                !.served = @ + 1,
                !.last_answer = [from_cache |-> TRUE, key |-> key,
                                 computed_with |-> server.cache[key].used,
                                 completed |-> server.completed]]
    /\ UNCHANGED serverFrame

\* endpoints.py:70-81 with engine.py:266-271: no entry, or one older than
\* the TTL; get_recommendations tests self.model and looks the user up in
\* self.user_mapping
RequestReadsUserMapping ==
    /\ server.request.pc = "idle"
    /\ server.served < MaxRequests
    /\ \E key \in CacheKeys :
          server' = [server EXCEPT
             !.request = [pc |-> "post_mapping", key |-> key,
                          used |-> [NoUse EXCEPT !.user_mapping = server.user_mapping]]]
    /\ UNCHANGED serverFrame

\* engine.py:282-284: n_items = len(self.post_mapping)
RequestReadsPostMapping ==
    /\ server.request.pc = "post_mapping"
    /\ server' = [server EXCEPT !.request.used.post_mapping = server.post_mapping,
                                !.request.pc = "predict"]
    /\ UNCHANGED serverFrame

\* engine.py:286-289: self.model.predict(...)
RequestPredicts ==
    /\ server.request.pc = "predict"
    /\ server' = [server EXCEPT !.request.used.model = server.model, !.request.pc = "store"]
    /\ UNCHANGED serverFrame

\* endpoints.py:83-96: the answer is put in the cache and returned
RequestStores ==
    /\ server.request.pc = "store"
    /\ server' = [server EXCEPT
          !.cache[server.request.key] = [run |-> server.request.used.model.run,
                                         used |-> server.request.used],
          !.served = @ + 1,
          !.last_answer = [from_cache |-> FALSE, key |-> server.request.key,
                           computed_with |-> server.request.used,
                           completed |-> server.completed],
          !.request = [pc |-> "idle", key |-> 0, used |-> NoUse]]
    /\ UNCHANGED serverFrame

NextServer ==
    \/ RefreshStart
    \/ RefreshUserMapping
    \/ RefreshPostMapping
    \/ RefreshNewModel
    \/ RefreshFit
    \/ RefreshClearCache
    \/ RequestFromCache
    \/ RequestReadsUserMapping
    \/ RequestReadsPostMapping
    \/ RequestPredicts
    \/ RequestStores

ServerSpec == InitServer /\ [][NextServer]_vars

(***************************************************************************)
(* Properties                                                              *)
(***************************************************************************)
Emitted == cbOut \o cfOut \o socOut \o trOut
Ids(seq) == {seq[i].content_id : i \in 1..Len(seq)}
Finished == pc = "done"

\* C1: for an existing user, whatever the lookups do (return nothing, fail,
\* raise), recommend() ends by returning a list and never raises to its caller.
C1_ReturnsNeverRaises ==
    UserExists(user_id) =>
        /\ outcome # "raised"
        /\ Finished => outcome = "returned"

\* an existing user's call in which a lookup raised and the call returned
C1_Witness ==
    /\ UserExists(user_id) /\ Finished
    /\ exc = "OperationalError" /\ outcome = "returned"

\* C2: for a user_id that does not exist no source emits a candidate and
\* recommend() returns the empty list through its logged error path, without
\* raising, also when posts recent enough to be trending exist.
C2_UnknownUserEmpty ==
    ~UserExists(user_id) =>
        /\ Emitted = <<>>
        /\ outcome # "raised"
        /\ Finished => result = <<>> /\ outcome = "returned" /\ exc # "none"

\* an unknown user's finished call while a trending post exists that is not excluded
C2_Witness ==
    /\ ~UserExists(user_id) /\ Finished
    /\ RecentPosts(TrendingDays) \ exclude_ids # {}
    /\ limit > 0
    /\ raisedAt = "trending"

\* C4: no source emits a candidate whose content_id is in exclude_ids, and
\* the returned list holds none.
C4_ExcludedNeverEmitted ==
    /\ Ids(Emitted) \cap exclude_ids = {}
    /\ Ids(result) \cap exclude_ids = {}

\* the collaborative source emitted candidates and passed over an excluded
\* item that a similar user interacted with
C4_Witness ==
    /\ cfOut # <<>>
    /\ pc \notin {"embedding", "content_based", "collaborative"}
    /\ \E similar_users \in SimilarUserOrders(user_id, SimilarUsersLimit) :
         \E k \in 1..Len(similar_users) :
            \E x \in Range(get_user_content_interactions(similar_users[k], CollaborativeDays)) :
               x.content_id \in exclude_ids /\ ContentExists(x.content_id)

\* C6: when a candidate source fails with an exception while the sources
\* before it emitted candidates that still exist, recommend() returns
\* recommendations from them, not the empty list.
C6_SourceFailureIsolated ==
    (/\ Finished
     /\ raisedAt \in {"content_based", "collaborative", "social", "trending"}
     /\ limit > 0
     /\ \E c \in Range(Emitted) : ContentExists(c.content_id))
    => result # <<>>

ColdUser(u) ==
    /\ UserExists(u)
    /\ get_user_interests(u) = <<>>
    /\ get_user_friends(u) = {}
    /\ get_user_content_interactions(u, CollaborativeDays) = <<>>

\* C7: for a user without friends, interests or interactions, when trending
\* posts exist (and no database lookup fails), recommend() returns trending
\* posts and nothing else, none labelled "similar_users" or "your_interests".
C7_ColdStartTrending ==
    (/\ Finished
     /\ ColdUser(user_id)
     /\ exc # "OperationalError"
     /\ limit > 0
     /\ RecentPosts(TrendingDays) \ exclude_ids # {})
    => /\ result # <<>>
       /\ Ids(result) \subseteq RecentPosts(TrendingDays)
       /\ \A i \in 1..Len(result) :
             Range(result[i].factors) \cap {"similar_users", "your_interests"} = {}

\* C8: once the content-based source has run (no database failure), every
\* row the hashtag lookup gave for an interest tag and that is not excluded
\* has a candidate with content_based_score 0.8, popularity
\* min((3*shares + 2*comments + reactions)/100, 1) and recency
\* max(0, 1 - age/30): 0 at 40 days, 1 at 0 days.
C8_ContentBasedEmits ==
    (/\ pc \notin {"embedding", "content_based"}
     /\ raisedAt # "embedding"
     /\ exc # "OperationalError")
    => \A row \in Range(ContentBasedVisits(user_id, exclude_ids)) :
          \E c \in Range(cbOut) :
             /\ c.content_id = row.content_id
             /\ c.content_based_score * 10 = 8 * ScoreScale
             /\ c.popularity_score =
                   Min(((3 * row.total_shares + 2 * row.total_comments + row.total_reactions)
                        * ScoreScale) \div 100, ScoreScale)
             /\ c.recency_score = RecencyScore(row.created_at)
             /\ row.created_at = <<40>> => c.recency_score = 0
             /\ row.created_at = <<0>> => c.recency_score = ScoreScale

MergeDone == pc \notin {"merge"} /\ raisedAt # "merge"

FirstEmission(cid) ==
    LET k == CHOOSE i \in 1..Len(Emitted) :
                /\ Emitted[i].content_id = cid
                /\ \A j \in 1..(i - 1) : Emitted[j].content_id # cid
    IN Emitted[k]

\* C3: after the merge the candidate list has one candidate per content_id
\* (every emitted id when no filter is given), and it is, field for field,
\* the first one emitted in the order content-based, collaborative, social,
\* trending.
C3_MergeKeepsFirst ==
    MergeDone =>
        /\ \A i, j \in 1..Len(candidates) :
              candidates[i].content_id = candidates[j].content_id => i = j
        /\ Ids(candidates) \subseteq Ids(Emitted)
        /\ ~filters.on => Ids(candidates) = Ids(Emitted)
        /\ \A i \in 1..Len(candidates) : candidates[i] = FirstEmission(candidates[i].content_id)

\* a merge in which two sources emitted the same content_id with different
\* partial scores, and the content-based source emitted one id twice
C3_Witness ==
    /\ MergeDone /\ ~filters.on
    /\ Len(cbOut) = 2 /\ cbOut[1].content_id = cbOut[2].content_id
    /\ \E c \in Range(cfOut) : c.content_id \in Ids(cbOut) /\ c \notin Range(candidates)
    /\ \E c \in Range(trOut) : c.content_id \in Ids(socOut) /\ c \notin Range(candidates)

ScoreDone == pc \notin {"merge", "score"} /\ raisedAt \notin {"merge", "score"}

CandidateOf(cid) == CHOOSE c \in Range(candidates) : c.content_id = cid

\* C9: every scored candidate's score is 0.4*collaborative_score +
\* 0.4*content_similarity + 0.1*popularity_score + 0.1*recency_score over the
\* partial scores of its candidate; content_based_score and social_score
\* take no part.
C9_WeightedScore ==
    ScoreDone =>
        /\ Ids(scored) = Ids(candidates)
        /\ \A i \in 1..Len(scored) :
              LET s == scored[i]
                  c == CandidateOf(s.content_id)
              IN /\ s.score = 4 * c.collaborative_score + 4 * s.content_similarity
                              + c.popularity_score + c.recency_score
                 /\ s.collaborative_score = c.collaborative_score
                 /\ s.popularity_score = c.popularity_score
                 /\ s.recency_score = c.recency_score

\* a scored list where all four terms are positive for one candidate, and
\* candidates with a content_based_score and a social_score were scored
C9_Witness ==
    /\ ScoreDone
    /\ \E s \in Range(scored) :
          /\ s.collaborative_score > 0 /\ s.content_similarity > 0
          /\ s.popularity_score > 0 /\ s.recency_score > 0
    /\ \E c \in Range(candidates) : c.content_based_score > 0
    /\ \E c \in Range(candidates) : c.has_social /\ c.social_score > 0

FactorLabels == <<"similar_users", "your_interests", "popular", "recent", "friend_activity">>

FactorHolds(label, s, c) ==
    IF label = "similar_users" THEN s.collaborative_score * 10 > 3 * ScoreScale
    ELSE IF label = "your_interests" THEN s.content_similarity * 10 > 3 * ScoreScale
    ELSE IF label = "popular" THEN s.popularity_score * 10 > 3 * ScoreScale
    ELSE IF label = "recent" THEN s.recency_score * 10 > 7 * ScoreScale
    ELSE c.has_social /\ c.social_score * 10 > 3 * ScoreScale

\* C10: every scored candidate's factors list is not empty; it is the
\* labels, in the order similar_users, your_interests, popular, recent,
\* friend_activity, whose condition holds, and it is <<"recommended_for_you">>
\* exactly when none holds.
C10_FactorsInOrder ==
    ScoreDone =>
        \A i \in 1..Len(scored) :
            LET s == scored[i]
                c == CandidateOf(s.content_id)
                holds(label) == FactorHolds(label, s, c)
                expected == SelectSeq(FactorLabels, holds)
            IN /\ s.factors # <<>>
               /\ expected # <<>> => s.factors = expected
               /\ (s.factors = <<"recommended_for_you">>) <=> (expected = <<>>)

\* a scored list with a candidate carrying three labels or more, one with
\* friend_activity and one with the fallback label only
C10_Witness ==
    /\ ScoreDone
    /\ \E s \in Range(scored) : Len(s.factors) >= 3 /\ s.factors[1] = "similar_users"
    /\ \E s \in Range(scored) : "friend_activity" \in Range(s.factors)
    /\ \E s \in Range(scored) : s.factors = <<"recommended_for_you">>

\* _score_candidates has just returned its list to recommend()
ScoringReturned == pc = "diversify"

\* the place of a content id in a list of candidates
PlaceIn(cands, cid) == CHOOSE k \in 1..Len(cands) : cands[k].content_id = cid

\* C11: the list the scorer returns holds every merged candidate, in
\* descending order of final score, and two candidates with the same score
\* stand in the order they had in the merged list
C11_SortedStableByScore ==
    ScoringReturned =>
        /\ Len(scored) = Len(candidates)
        /\ Ids(scored) = Ids(candidates)
        /\ \A i, j \in 1..Len(scored) :
              i < j =>
                 /\ scored[i].score >= scored[j].score
                 /\ scored[i].score = scored[j].score =>
                       PlaceIn(candidates, scored[i].content_id)
                          < PlaceIn(candidates, scored[j].content_id)

\* scoring has moved a later candidate ahead of an earlier one and has left
\* two candidates of equal score next to each other
C11_Witness ==
    /\ ScoringReturned
    /\ \E i \in 1..(Len(scored) - 1) :
          /\ scored[i].score > scored[i + 1].score
          /\ PlaceIn(candidates, scored[i].content_id)
                > PlaceIn(candidates, scored[i + 1].content_id)
    /\ \E i \in 1..(Len(scored) - 1) : scored[i].score = scored[i + 1].score

DiversifyReturned == pc = "respond"

CreatorOf(c) == get_content_by_id(c.content_id).user_id

\* how many entries of a list are posts of creator u
TimesIn(list, u) ==
    Cardinality({i \in 1..Len(list) :
                    ContentExists(list[i].content_id) /\ CreatorOf(list[i]) = u})

\* cands[i] is a post that exists and fewer than PerCreatorCap posts of its
\* creator stand before it
WithinCap(cands, i) ==
    /\ ContentExists(cands[i].content_id)
    /\ Cardinality({j \in 1..(i - 1) :
                       /\ ContentExists(cands[j].content_id)
                       /\ CreatorOf(cands[j]) = CreatorOf(cands[i])}) < PerCreatorCap

\* C13: when the posts within the creator cap fill the 50 places, the
\* diversifier returns 50 of them and no creator has more than two entries in
\* its output; when they do not, the list before exploration is these posts
\* in score order followed by the remaining candidates in score order, cut at
\* 50, and no creator has more than two entries in the part before the
\* backfill
C13_CreatorCapThenBackfill ==
    DiversifyReturned =>
        LET within(c) == WithinCap(scored, PlaceIn(scored, c.content_id))
            beyond(c) == ~within(c)
            admitted == SelectSeq(scored, within)
            remaining == SelectSeq(scored, beyond)
        IN /\ Len(admitted) >= DiversifyCap =>
                 /\ diversified = Prefix(admitted, DiversifyCap)
                 /\ \A i \in 1..Len(final_recommendations) :
                       /\ ContentExists(final_recommendations[i].content_id)
                       /\ TimesIn(final_recommendations, CreatorOf(final_recommendations[i]))
                             <= PerCreatorCap
           /\ Len(admitted) < DiversifyCap =>
                 /\ diversified = Prefix(admitted \o remaining, DiversifyCap)
                 /\ \A i \in 1..Len(admitted) :
                       TimesIn(Prefix(diversified, Len(admitted)), CreatorOf(diversified[i]))
                          <= PerCreatorCap

\* the 50 places are filled by posts within the cap while a higher-scored
\* third post of one creator is left out
C13_Witness ==
    /\ DiversifyReturned
    /\ Len(final_recommendations) = DiversifyCap
    /\ \E i \in 1..DiversifyCap :
          /\ i <= Len(scored)
          /\ ContentExists(scored[i].content_id)
          /\ scored[i].content_id \notin Ids(final_recommendations)
          /\ TimesIn(final_recommendations, CreatorOf(scored[i])) = PerCreatorCap

C15_OutputIsInputReordered ==
    DiversifyReturned =>
        /\ \A i \in 1..Len(final_recommendations) :
              /\ final_recommendations[i].content_id \in Ids(scored)
              /\ LET c == scored[PlaceIn(scored, final_recommendations[i].content_id)]
                 IN [final_recommendations[i] EXCEPT !.score = c.score] = c
        /\ Cardinality(Ids(final_recommendations)) = Len(final_recommendations)
        /\ Len(final_recommendations) = Min(DiversifyCap, Len(scored))
        /\ Len(scored) <= DiversifyCap => Ids(final_recommendations) = Ids(scored)

\* at most 50 candidates, of which one is gone and one is beyond the cap of
\* its creator; both are in the output
C15_Witness ==
    /\ DiversifyReturned
    /\ Len(scored) <= DiversifyCap
    /\ \E i, j \in 1..Len(scored) :
          /\ ~ContentExists(scored[i].content_id)
          /\ ContentExists(scored[j].content_id) /\ ~WithinCap(scored, j)
          /\ {scored[i].content_id, scored[j].content_id} \subseteq Ids(final_recommendations)

\* C16: when recommend() is called with a content-type filter, every item
\* it returns is a post whose type (poll if the poll flag is set, else repost
\* if it has a parent id, else post) is in the allowed set; when no emitted
\* candidate has an allowed type, the result is empty
C16_OnlyAllowedTypes ==
    (Finished /\ filters.on) =>
        /\ \A i \in 1..Len(result) :
              ContentType(get_content_by_id(result[i].content_id)) \in filters.content_types
        /\ (\A c \in Range(Emitted) :
                ContentType(get_content_by_id(c.content_id)) \notin filters.content_types)
              => result = <<>>

\* the call asked for polls only, the sources emitted posts and reposts but no
\* poll, and the call returned normally with nothing
C16_Witness ==
    /\ Finished /\ outcome = "returned"
    /\ filters.on /\ filters.content_types = {"poll"}
    /\ \E c \in Range(Emitted) : ContentType(get_content_by_id(c.content_id)) = "post"
    /\ \E c \in Range(Emitted) : ContentType(get_content_by_id(c.content_id)) = "repost"
    /\ \A c \in Range(Emitted) : ContentType(get_content_by_id(c.content_id)) # "poll"
    /\ result = <<>>

\* C17: of the first `limit` entries of the diversified list, recommend()
\* returns those whose post is found, each with its content_id, score and
\* factors, in the order they have in that list; no returned item is a post
\* whose lookup fails
C17_MissingDroppedOthersKept ==
    (Finished /\ outcome = "returned") =>
        LET found(c) == ContentExists(c.content_id)
            among == SelectSeq(Prefix(final_recommendations, limit), found)
            expected(c) == c.content_id \in Ids(among)
        IN /\ \A i \in 1..Len(result) : ContentExists(result[i].content_id)
           /\ SelectSeq(result, expected)
                 = [i \in 1..Len(among) |->
                      [content_id |-> among[i].content_id,
                       score |-> among[i].score,
                       factors |-> among[i].factors]]

\* among the first `limit` entries a post that is gone stands between two
\* that are found, and both of these are returned
C17_Witness ==
    /\ Finished /\ outcome = "returned"
    /\ \E i, j, k \in 1..Min(limit, Len(final_recommendations)) :
          /\ i < j /\ j < k
          /\ ~ContentExists(final_recommendations[j].content_id)
          /\ {final_recommendations[i].content_id,
               final_recommendations[k].content_id} \subseteq Ids(result)

\* the endpoint has answered
Responded == pc = "responded"

\* C18 as stated: a request for a user_id that is not in the users table is
\* answered with status 404, not with the 500 of other failures
C18_UnknownUser404 ==
    (Responded /\ ~UserExists(user_id) /\ exc = "HTTPException_404")
        => http_response.status_code = 404

\* C19 as stated: a call of get_recommendations with exclude_seen = True
\* returns no post the user had interacted with when the call was made,
\* whether or not the user is in the training data
C19_SeenNeverReturned ==
    voizy.last.exclude_seen =>
        \A i \in 1..Len(voizy.last.returned) :
            voizy.last.returned[i].post_id \notin voizy.last.seen_posts

\* C20: the exploration pass leaves the first five admitted candidates where
\* they are, with their scores; every other candidate comes out with its
\* score unchanged or raised by at most a tenth, and nothing else changed;
\* from position 6 on the output is in descending order of these scores
C20_ExplorationKeepsTopFive ==
    DiversifyReturned =>
        /\ Len(final_recommendations) = Len(diversified)
        /\ Prefix(final_recommendations, TopKept) = Prefix(diversified, TopKept)
        /\ \A i \in (TopKept + 1)..Len(final_recommendations) :
              LET c == diversified[PlaceIn(diversified, final_recommendations[i].content_id)]
              IN /\ PlaceIn(diversified, c.content_id) > TopKept
                 /\ c.score <= final_recommendations[i].score
                 /\ 100 * final_recommendations[i].score <= 110 * c.score
                 /\ [final_recommendations[i] EXCEPT !.score = c.score] = c
        /\ \A i \in (TopKept + 1)..(Len(final_recommendations) - 1) :
              final_recommendations[i].score >= final_recommendations[i + 1].score

\* a candidate past the fifth place was boosted and stands ahead of one that
\* stood before it
C20_Witness ==
    /\ DiversifyReturned
    /\ \E i, j \in (TopKept + 1)..Len(final_recommendations) :
          /\ i < j
          /\ PlaceIn(diversified, final_recommendations[i].content_id)
                > PlaceIn(diversified, final_recommendations[j].content_id)
          /\ final_recommendations[i].score
                > diversified[PlaceIn(diversified, final_recommendations[i].content_id)].score

\* the collaborative source has just returned
CollaborativeReturned == pc = "social"

\* what the neighbours did, neighbour after neighbour, each one's
\* interactions in the order the repository returns them
NeighbourInteractions(similar_users) ==
    ConcatAll([k \in 1..Len(similar_users) |->
        get_user_content_interactions(similar_users[k], CollaborativeDays)])

FirstInteractionWith(seen_in_order, cid) ==
    seen_in_order[CHOOSE i \in 1..Len(seen_in_order) :
        /\ seen_in_order[i].content_id = cid
        /\ \A j \in 1..(i - 1) : seen_in_order[j].content_id # cid]

\* 0.7, 0.8, 0.9 and 0.5 in units of 1/ScoreScale
ScoreOfType(interaction_type) ==
    CASE interaction_type = "reaction" -> 210
      [] interaction_type = "comment" -> 240
      [] interaction_type = "share" -> 270
      [] OTHER -> 150

\* C21: the collaborative source emits at most one candidate per content_id,
\* and the collaborative_score of each is the score of the type of the first
\* interaction with that item met when the neighbours are visited in order
\* and each neighbour's interactions in order; later interactions with the
\* same item, of whatever type, do not change it.
C21_FirstInteractionSetsScore ==
    CollaborativeReturned =>
        /\ \A i, j \in 1..Len(cfOut) : i # j => cfOut[i].content_id # cfOut[j].content_id
        /\ \E similar_users \in SimilarUserOrders(user_id, SimilarUsersLimit) :
              LET seen_in_order == NeighbourInteractions(similar_users)
              IN \A i \in 1..Len(cfOut) :
                    /\ \E k \in 1..Len(seen_in_order) : seen_in_order[k].content_id = cfOut[i].content_id
                    /\ cfOut[i].collaborative_score =
                          ScoreOfType(FirstInteractionWith(seen_in_order, cfOut[i].content_id).interaction_type)

\* an emitted item that a neighbour first reacted to and that was shared or
\* commented on later in the iteration: it keeps the reaction's 0.7
C21_Witness ==
    /\ CollaborativeReturned
    /\ \E i \in 1..Len(cfOut) :
          /\ cfOut[i].collaborative_score = 210
          /\ \E similar_users \in SimilarUserOrders(user_id, SimilarUsersLimit) :
                LET seen_in_order == NeighbourInteractions(similar_users)
                IN \E a, b \in 1..Len(seen_in_order) :
                      /\ a < b
                      /\ seen_in_order[a].content_id = cfOut[i].content_id
                      /\ seen_in_order[b].content_id = cfOut[i].content_id
                      /\ seen_in_order[a].interaction_type = "reaction"
                      /\ seen_in_order[b].interaction_type \in {"share", "comment"}
                      /\ \A j \in 1..(a - 1) : seen_in_order[j].content_id # cfOut[i].content_id

\* C22: recommend() takes the user embedding from the first of three places
\* that has one: the caller's features (the store is then neither read nor
\* written), else the store (nothing is written), else the feature extractor,
\* whose vector is persisted; the store changes in this last case only.
C22_EmbeddingPriority ==
    [][pc = "embedding" =>
          LET stored == get_user_embedding(user_id)
              resolved == pc' = "content_based"
          IN /\ user_features.given =>
                   /\ resolved
                   /\ user_embedding' = user_features.embedding
                   /\ userEmbStore' = userEmbStore
             /\ ~user_features.given /\ stored # <<>> /\ resolved =>
                   /\ user_embedding' = stored
                   /\ userEmbStore' = userEmbStore
             /\ ~user_features.given /\ stored = <<>> /\ resolved /\ UserExists(user_id) =>
                   /\ user_embedding' # <<>>
                   /\ userEmbStore' = [userEmbStore EXCEPT ![user_id] = user_embedding']
             /\ userEmbStore' # userEmbStore => ~user_features.given /\ stored = <<>>
      ]_vars

\* the stage has run with features supplied while another embedding is
\* stored for the same user: the supplied one is in use, the stored one intact
C22_Witness ==
    /\ pc = "content_based"
    /\ user_features.given
    /\ get_user_embedding(user_id) # <<>>
    /\ user_embedding = user_features.embedding
    /\ user_embedding # get_user_embedding(user_id)

\* C23: after any sequence of embedding writes for an owner, made one after
\* the other, the table holds exactly one "combined" row for that owner and a
\* read returns the vector written last; a write replaces the row's value
\* and adds no row.
C23_OneRowLastWriteRead ==
    \A owner \in EmbeddingOwners :
        embeddings.written[owner] # <<>> =>
            /\ Cardinality(RowsOf(embeddings.rows, owner)) = 1
            /\ EmbeddingReads(embeddings.rows, owner) = {embeddings.written[owner]}
            /\ embeddings.last_read.owner = owner /\ embeddings.last_read.writes = embeddings.writes =>
                  embeddings.last_read.value = embeddings.written[owner]

\* an owner written three times, with another vector the last time, and read
\* back after the last write
C23_Witness ==
    \E owner \in EmbeddingOwners :
        /\ embeddings.writes = MaxWrites
        /\ Len(embeddings.rows) = 1
        /\ embeddings.written[owner] = <<1000, 0>>
        /\ embeddings.last_read = [owner |-> owner, value |-> <<1000, 0>>, writes |-> MaxWrites]
        /\ embeddings.clock > 0

RaceOver == \A s \in Sessions : embeddings.sessions[s].pc = "done"

\* C24: when two recommendation calls race to compute and store a missing
\* embedding for one owner, then however their check and write steps
\* interleave, the owner ends with a single "combined" embedding and its
\* value is that of the write that committed last.
C24_RaceLeavesLastCommit ==
    RaceOver /\ embeddings.commits # <<>> =>
        /\ Cardinality(RowsOf(embeddings.rows, embeddings.owner)) = 1
        /\ EmbeddingReads(embeddings.rows, embeddings.owner) =
              {embeddings.sessions[embeddings.commits[Len(embeddings.commits)]].vector}

\* C25: before normalization every component of a user or content feature
\* vector lies in [-1, 1], whatever the size of the non-negative raw counters
\* (impressions, views, reactions, comments, shares, activity frequencies,
\* active days).
C25_ComponentsBounded ==
    features.pc = "normalize" =>
        \A i \in 1..Len(features.combined) :
            -EmbScale <= features.combined[i] /\ features.combined[i] <= EmbScale

\* C26: when the user embedding and the content embeddings both come from
\* the feature extractors their lengths differ (12 + 5 + 12 components
\* against 10 + 6 + 17), so every scored candidate has content_similarity
\* 0.0 and none carries the label "your_interests".
C26_ExtractedNeverSimilar ==
    /\ Len(user_embedding) \in {0, 12 + 5 + 12}
    /\ \A p \in PostIds : Len(contentEmbStore[p]) \in {0, 10 + 6 + 17}
    /\ \A i \in 1..Len(scored) :
          /\ scored[i].content_similarity = 0
          /\ \A k \in 1..Len(scored[i].factors) : scored[i].factors[k] # "your_interests"

\* candidates scored for a user with a technology interest, among them a
\* live technology post whose embedding is stored
C26_Witness ==
    /\ ScoringReturned
    /\ user_embedding # <<>>
    /\ \E k \in 1..Len(user_embedding) : user_embedding[k] > 0
    /\ \E i \in 1..Len(scored) :
          /\ contentEmbStore[scored[i].content_id] # <<>>
          /\ "technology" \in Range(Post(scored[i].content_id).hashtags)

PassedCap(rec) == WithinCap(scored, PlaceIn(scored, rec.content_id))
InTopKept(rec) == PlaceIn(final_recommendations, rec.content_id) <= TopKept

C28_ScoresWithinUnit ==
    features.pc = "emitted" =>
        /\ 0 <= features.emitted.popularity_score /\ features.emitted.popularity_score <= ScoreScale
        /\ 0 <= features.emitted.recency_score /\ features.emitted.recency_score <= ScoreScale

\* C29: once a model refresh has completed and cleared the recommendation
\* cache, no request is answered from a cache entry that was computed with
\* the model of before that refresh, however the refresh thread and the
\* requests in flight interleave.
C29_NoStaleCacheAnswer ==
    server.last_answer.from_cache =>
        server.last_answer.computed_with.model.run >= server.last_answer.completed

\* C30: while a refresh runs beside the request handling, get_recommendations
\* scores with a model and user/post mappings of one and the same completed
\* training run: never the old model with new mappings, never a model whose
\* training has not finished.
C30_ModelAndMappingsOfOneRun ==
    server.request.pc = "store" =>
        LET used == server.request.used
        IN /\ used.model.fitted
           /\ used.model.run = used.user_mapping
           /\ used.model.run = used.post_mapping

====
